---- MODULE Spec2Model ----
(***************************************************************************)
(* Classical secret recovery for the Simon problem family of               *)
(* QCircuitNet_Dataset: the mod-2 solver (simon, generalized_simon_multi), *)
(* the mod-3 solver (generalized_simon_ternary) and the ternary cycle      *)
(* decomposition used by the ternary oracle.                               *)
(*                                                                         *)
(* Python strings are sequences of one-character strings; a measured       *)
(* counts dictionary is the sequence of its distinct keys in insertion     *)
(* order (the counts themselves are never read by the code).               *)
(***************************************************************************)
EXTENDS Integers, Sequences, FiniteSets, TLC

VARIABLES
    pc,             \* position of the running call
    n,              \* secret length of the circuit under analysis
    counts,         \* keys of results.get_counts(), insertion order
    prediction,     \* value returned by the call
    secret_string,  \* find_ternary_cycles: the secret s
    ternary_numbers,\* find_ternary_cycles: generate_ternary_numbers(n)
    idx,            \* find_ternary_cycles: position of the for loop
    cycles,         \* find_ternary_cycles: cycles
    seen,           \* find_ternary_cycles: seen
    current,        \* find_cycle: current
    ternary_cycle,  \* find_cycle: ternary_cycle
    seen_cycles,    \* find_cycle: seen_cycles
    oracle,         \* oracle generators: the gates appended to the oracle circuit
    key_string,     \* oracle generators: key_string
    secret_string2, \* the second secret (s2, secret_string2) of the multi-secret case
    x_str,          \* oracle verifiers: the basis input of the test case
    qubits,         \* oracle verifiers: the value of every qubit of the test circuit
    trial,          \* check_model: t, the trial
    shot,           \* check_model: shots of the trial already counted
    cnt_success,    \* check_model: cnt_success
    cnt_fail,       \* check_model: cnt_fail
    total_success,  \* check_model: total_success
    total_fail,     \* check_model: total_fail
    harness,        \* which check_model runs: "simon" or "multi"
    raised,         \* check_model: the exception that ended the call, if any
    check_result,   \* check_model: the returned value
    matrix,         \* rref_mod3: the matrix handed to the call
    rref_first,     \* rref_mod3: what the call returned
    rref_second,    \* rref_mod3: what the call returned for the returned matrix
    rref_loop       \* rref_mod3: M, r, c and pivot_cols inside the column loop

oracle_vars == <<oracle, key_string, secret_string2, x_str, qubits>>

harness_vars == <<trial, shot, cnt_success, cnt_fail, total_success, total_fail,
                  harness, raised, check_result>>

rref_vars == <<matrix, rref_first, rref_second, rref_loop>>

ext_vars == <<oracle_vars, harness_vars, rref_vars>>

vars == <<pc, n, counts, prediction, secret_string, ternary_numbers, idx,
          cycles, seen, current, ternary_cycle, seen_cycles, ext_vars>>

cycle_vars == <<secret_string, ternary_numbers, idx, cycles, seen, current,
                ternary_cycle, seen_cycles>>

(***************************************************************************)
(* Bounds of the model.                                                    *)
(***************************************************************************)
MaxSimonN == 3
MaxTernaryN == 3
MaxTernaryOutcomes == 2
MaxMultiN == 2
MaxMultiOutcomes == 3
MaxCycleN == 3

(***************************************************************************)
(* Python built-ins on one-character strings and on strings.               *)
(***************************************************************************)
\* int(c) of a digit character
int(c) == CASE c = "0" -> 0 [] c = "1" -> 1 [] c = "2" -> 2 [] c = "3" -> 3

\* str(d) of a one-digit integer
str(d) == CASE d = 0 -> "0" [] d = 1 -> "1" [] d = 2 -> "2" [] d = 3 -> "3"

\* a function on 1..k as an explicit tuple (a Python list or string)
Tup(f) == f \o <<>>

\* '0' * k
zeros(k) == Tup([i \in 1..k |-> "0"])

\* all strings of length k over the alphabet
Strings(alphabet, k) == [1..k -> alphabet]

Abs(x) == IF x < 0 THEN -x ELSE x

Min(S) == CHOOSE x \in S : \A y \in S : x <= y

RECURSIVE Gcd(_, _)
Gcd(a, b) == IF b = 0 THEN a ELSE Gcd(b, a % b)

\* a sympy Rational a/b in lowest terms with positive denominator, as <<p, q>>
Rational(a, b) ==
    LET g == Gcd(Abs(a), Abs(b))
        sg == IF b < 0 THEN -1 ELSE 1
    IN  <<(sg * a) \div g, Abs(b) \div g>>

(***************************************************************************)
(* Matrices are sequences of rows.                                         *)
(***************************************************************************)
\* Matrix(rows).T for a non-empty list of equal-length rows
Transpose(rows) ==
    Tup([i \in 1..Len(rows[1]) |-> Tup([j \in 1..Len(rows) |-> rows[j][i]])])

hstack_eye_zero_block(M) ==
    Tup([i \in 1..Len(M) |-> M[i] \o [j \in 1..Len(M) |-> 0]])

\* np.hstack([M, np.eye(M.shape[0], dtype=int)])
hstack_eye(M) ==
    Tup([i \in 1..Len(M) |->
            M[i] \o [j \in 1..Len(M) |-> IF i = j THEN 1 ELSE 0]])

(***************************************************************************)
(* sympy Matrix.rref(iszerofunc=lambda x: x % 2 == 0): fraction-free       *)
(* elimination above and below each pivot, rows normalised last.           *)
(***************************************************************************)
iszerofunc(x) == x % 2 = 0

\* first row at or below piv_row whose entry in piv_col is not "zero"; 0 if none
find_reasonable_pivot(mat, piv_row, piv_col) ==
    LET cand == {r \in piv_row..Len(mat) : ~iszerofunc(mat[r][piv_col])}
    IN  IF cand = {} THEN 0 ELSE Min(cand)

row_swap_one_way(mat, i, j) == [mat EXCEPT ![i] = mat[j]]

row_swap(mat, i, j) == [mat EXCEPT ![i] = mat[j], ![j] = mat[i]]

\* row[i] = a*row[i] - b*row[j]
cross_cancel(mat, a, i, b, j) ==
    Tup([p \in 1..Len(mat[i]) |-> a * mat[i][p] - b * mat[j][p]])

zero_column_skipped(mat, piv_row, piv_col) == mat

\* zero above and below the pivot of piv_row (the pivot row itself never changes)
zero_column(mat, piv_row, piv_col) ==
    Tup([row \in 1..Len(mat) |->
            IF row = piv_row \/ iszerofunc(mat[row][piv_col])
            THEN mat[row]
            ELSE cross_cancel(mat, mat[piv_row][piv_col], row,
                              mat[row][piv_col], piv_row)])

RECURSIVE row_reduce(_, _, _, _)
row_reduce(mat, piv_row, piv_col, pivot_cols) ==
    IF piv_col > Len(mat[1]) \/ piv_row > Len(mat)
    THEN [mat |-> mat, pivot_cols |-> pivot_cols]
    ELSE LET pivot == find_reasonable_pivot(mat, piv_row, piv_col)
         IN  IF pivot = 0
             THEN row_reduce(mat, piv_row, piv_col + 1, pivot_cols)
             ELSE row_reduce(
                      zero_column(row_swap(mat, piv_row, pivot), piv_row, piv_col),
                      piv_row + 1, piv_col, Append(pivot_cols, piv_col))

\* normalise each pivot row: the pivot becomes one, the entries right of it are
\* divided by the pivot value, the entries left of it are left as they are
normalize_rows(red) ==
    Tup([i \in 1..Len(red.mat) |->
        Tup([p \in 1..Len(red.mat[i]) |->
            IF i <= Len(red.pivot_cols) /\ p > red.pivot_cols[i]
            THEN Rational(red.mat[i][p], red.mat[i][red.pivot_cols[i]])
            ELSE IF i <= Len(red.pivot_cols) /\ p = red.pivot_cols[i]
            THEN <<1, 1>>
            ELSE <<red.mat[i][p], 1>>])])

rref(mat) ==
    LET red == row_reduce(mat, 1, 1, <<>>)
    IN  [mat |-> normalize_rows(red), pivot_cols |-> red.pivot_cols]

mod2_truncated(x) == IF x[1] < 0 THEN 0 ELSE x[1] % 2

\* x.as_numer_denom()[0] % 2
mod2(x) == x[1] % 2

applyfunc_mod2(mat) ==
    Tup([i \in 1..Len(mat) |-> Tup([p \in 1..Len(mat[i]) |-> mod2(mat[i][p])])])

(***************************************************************************)
(* simon/simon_post_processing.py                                          *)
(***************************************************************************)
solve_row_first(M_I_final) == M_I_final[1]

\* the row of the reduced matrix that solve_equation reads: M_I_final[-1, :]
solve_row(M_I_final) == M_I_final[Len(M_I_final)]

\* string_list: a list of equal-length lists of integers
solve_equation(string_list) ==
    IF string_list = <<>>
    THEN [kind |-> "IndexError"]
    ELSE LET M == Transpose(string_list)
             M_I == hstack_eye(M)
             M_I_final == applyfunc_mod2(rref(M_I).mat)
             last == solve_row(M_I_final)
             mcols == Len(M[1])
         IN  IF \A j \in 1..mcols : last[j] = 0
             THEN [kind |-> "str",
                   val |-> Tup([j \in 1..Len(M) |-> str(last[mcols + j])])]
             ELSE [kind |-> "str", val |-> zeros(Len(M))]

\* y = [int(bit) for bit in result] for every result that passes the filter
simon_equations(nn, results) ==
    LET kept == SelectSeq(results, LAMBDA r : r # zeros(nn))
    IN  Tup([k \in 1..Len(kept) |->
                Tup([i \in 1..Len(kept[k]) |-> int(kept[k][i])])])

\* run_and_analyze after the simulator returned the counts; nn = num_qubits // 2
simon_run_and_analyze(num_qubits, results) ==
    LET nn == num_qubits \div 2
        equations == simon_equations(nn, results)
    IN  IF Len(equations) = 0
        THEN [kind |-> "str", val |-> zeros(nn)]
        ELSE solve_equation(equations)

\* simon_algorithm: QuantumCircuit(2 * n, n)
simon_num_qubits(nn) == 2 * nn

(***************************************************************************)
(* generalized_simon_ternary/simon_ternary_post_processing.py              *)
(***************************************************************************)
\* two qubit characters per ternary digit: str(int(binary_str[i:i+2], 2))
binary_to_ternary(binary_str) ==
    Tup([i \in 1..(Len(binary_str) \div 2) |->
            str(2 * int(binary_str[2 * i - 1]) + int(binary_str[2 * i]))])

\* format(int(digit), '02b') for every digit
ternary_to_binary(ternary_str) ==
    Tup([i \in 1..(2 * Len(ternary_str)) |->
            LET digit == int(ternary_str[(i + 1) \div 2])
            IN  IF i % 2 = 1 THEN str(digit \div 2) ELSE str(digit % 2)])

\* S(x % 3)
mod3(x) == x % 3

applyfunc_mod3(mat) ==
    Tup([i \in 1..Len(mat) |-> Tup([j \in 1..Len(mat[i]) |-> mod3(mat[i][j])])])

pow_inverse_identity(pivot_val) == 1

\* pow(pivot_val, -1, 3)
pow_inverse(pivot_val) == CHOOSE x \in 0..2 : (pivot_val * x) % 3 = 1

\* pow(pivot_val, -1, 3) raises ValueError: base is not invertible
pow_raises(pivot_val) == \A x \in 0..2 : (pivot_val * x) % 3 # 1

find_pivot_row_at_r(M, r, c) == IF r <= Len(M) THEN r ELSE 0

\* first row at or below r with a non-zero entry in column c; 0 for None
find_pivot_row(M, r, c) ==
    LET cand == {ri \in r..Len(M) : M[ri][c] # 0}
    IN  IF cand = {} THEN 0 ELSE Min(cand)

normalize_pivot_row_skipped(M, r, c) == M

\* make the pivot position 1
normalize_pivot_row(M, r, c) ==
    IF M[r][c] # 1
    THEN LET inv_pivot_val == mod3(pow_inverse(M[r][c]))
         IN  [M EXCEPT ![r] =
                    Tup([j \in 1..Len(M[r]) |-> mod3(inv_pivot_val * M[r][j])])]
    ELSE M

eliminate_row_added(M, ri, r, c) ==
    Tup([j \in 1..Len(M[ri]) |-> mod3(M[ri][j] + M[ri][c] * M[r][j])])

\* M[ri, j] = mod3(M[ri, j] - multiplier * M[r, j]) with multiplier = M[ri, c]
eliminate_row(M, ri, r, c) ==
    Tup([j \in 1..Len(M[ri]) |-> mod3(M[ri][j] - M[ri][c] * M[r][j])])

eliminate_column_below(M, r, c) ==
    Tup([ri \in 1..Len(M) |->
            IF ri > r /\ M[ri][c] # 0 THEN eliminate_row(M, ri, r, c) ELSE M[ri]])

\* eliminate all other entries in column c (row r itself never changes)
eliminate_column(M, r, c) ==
    Tup([ri \in 1..Len(M) |->
            IF ri # r /\ M[ri][c] # 0 THEN eliminate_row(M, ri, r, c) ELSE M[ri]])

\* the body of "for c in range(cols)" from column c on; r counts the pivots
RECURSIVE rref_mod3_from(_, _, _, _)
rref_mod3_from(M, r, c, pivot_cols) ==
    IF c > Len(M[1])
    THEN [mat |-> M, pivot_cols |-> pivot_cols]
    ELSE LET pivot_row == find_pivot_row(M, r, c)
         IN  IF pivot_row = 0
             THEN rref_mod3_from(M, r, c + 1, pivot_cols)
             ELSE LET swapped == IF pivot_row # r THEN row_swap(M, pivot_row, r) ELSE M
                      reduced == eliminate_column(normalize_pivot_row(swapped, r, c), r, c)
                  IN  IF r = Len(M)
                      THEN [mat |-> reduced, pivot_cols |-> Append(pivot_cols, c)]
                      ELSE rref_mod3_from(reduced, r + 1, c + 1, Append(pivot_cols, c))

rref_mod3(M) == rref_mod3_from(applyfunc_mod3(M), 1, 1, <<>>)

\* the rows of the equation matrix: every result but the all-zero string of
\* 2 * nn characters, decoded by binary_to_ternary, digit by digit
ternary_equations(nn, results) ==
    LET kept == SelectSeq(results, LAMBDA r : r # zeros(2 * nn))
    IN  Tup([k \in 1..Len(kept) |->
                LET ternary_result == binary_to_ternary(kept[k])
                IN  Tup([i \in 1..Len(ternary_result) |-> int(ternary_result[i])])])

first_solution_last_row(M_I_final, mcols, nn) ==
    IF \A j \in 1..mcols : mod3(M_I_final[Len(M_I_final)][j]) = 0
    THEN Tup([j \in 1..(Len(M_I_final[1]) - mcols) |->
                 str(M_I_final[Len(M_I_final)][mcols + j])])
    ELSE zeros(nn)

\* the identity block of the first row whose equation block is all zero mod 3,
\* '0' * nn when there is no such row
first_solution(M_I_final, mcols, nn) ==
    LET sol == {i \in 1..Len(M_I_final) :
                   \A j \in 1..mcols : mod3(M_I_final[i][j]) = 0}
    IN  IF sol = {}
        THEN zeros(nn)
        ELSE Tup([j \in 1..(Len(M_I_final[1]) - mcols) |->
                     str(M_I_final[Min(sol)][mcols + j])])

recover_secret_string_3d(nn, results) ==
    LET equations == ternary_equations(nn, results)
    IN  IF equations = <<>>
        THEN [kind |-> "tuple", val |-> zeros(nn), found |-> 0]
        ELSE LET M == Transpose(applyfunc_mod3(equations))
                 M_I == hstack_eye(M)
                 M_I_final == applyfunc_mod3(rref_mod3(M_I).mat)
             IN  [kind |-> "str", val |-> first_solution(M_I_final, Len(M[1]), nn)]

(***************************************************************************)
(* generalized_simon_ternary/simon_ternary_dataset.py check_dataset: the   *)
(* predictions counted as a success for a secret string                    *)
(***************************************************************************)
\* str((int(secret_string[i]) + int(secret_string[i])) % 3) for every i
rotated_string(sec) ==
    Tup([i \in 1..Len(sec) |-> str((int(sec[i]) + int(sec[i])) % 3)])

equivalents(sec) == {sec, rotated_string(sec)}

(***************************************************************************)
(* generalized_simon_multi/multi_simon_post_processing.py                  *)
(***************************************************************************)
\* the same reduction as solve_equation, on the rows of one bucket
post_processing(string_list) ==
    LET M == Transpose(string_list)
        M_I == hstack_eye(M)
        M_I_final == applyfunc_mod2(rref(M_I).mat)
        last == M_I_final[Len(M_I_final)]
        mcols == Len(M[1])
    IN  IF \A j \in 1..mcols : last[j] = 0
        THEN Tup([j \in 1..Len(M) |-> str(last[mcols + j])])
        ELSE zeros(Len(M))

\* the equation rows of one bucket: every result but '0' * nn
multi_equations(nn, results) ==
    LET kept == SelectSeq(results, LAMBDA r : r # zeros(nn))
    IN  Tup([k \in 1..Len(kept) |->
                Tup([i \in 1..Len(kept[k]) |-> int(kept[k][i])])])

recover_secret_string(nn, results) ==
    LET equations == multi_equations(nn, results)
    IN  IF Len(equations) = 0 THEN zeros(nn) ELSE post_processing(equations)

strip_ancilla_last(item) == Tup([i \in 1..(Len(item) - 1) |-> item[i]])

\* item[1:]
strip_ancilla(item) == Tup([i \in 1..(Len(item) - 1) |-> item[i + 1]])

\* dic1: the stripped outcomes whose leading character is '1'
dic1(keys) == LET tagged == SelectSeq(keys, LAMBDA item : item[1] = "1")
              IN  Tup([k \in 1..Len(tagged) |-> strip_ancilla(tagged[k])])

\* dic2: the stripped outcomes whose leading character is not '1'
dic2(keys) == LET tagged == SelectSeq(keys, LAMBDA item : item[1] # "1")
              IN  Tup([k \in 1..Len(tagged) |-> strip_ancilla(tagged[k])])

multi_run_and_analyze_swapped(num_qubits, keys) ==
    <<recover_secret_string(num_qubits, dic1(keys)),
      recover_secret_string(num_qubits, dic2(keys))>>

\* run_and_analyze after the simulator returned the counts; n = circuit.num_qubits
multi_run_and_analyze(num_qubits, keys) ==
    <<recover_secret_string(num_qubits, dic2(keys)),
      recover_secret_string(num_qubits, dic1(keys))>>

\* multi_simon_algorithm: QuantumRegister(2 * n + 1), ClassicalRegister(n + 1)
multi_num_qubits(nn) == 2 * nn + 1
multi_num_clbits(nn) == nn + 1

(***************************************************************************)
(* find_ternary_cycles and its inner functions                             *)
(***************************************************************************)
\* all ternary strings of length qudits_num, in counting order
RECURSIVE generate_ternary_numbers_desc(_)
generate_ternary_numbers_desc(qudits_num) ==
    IF qudits_num = 0
    THEN << <<>> >>
    ELSE LET smaller == generate_ternary_numbers_desc(qudits_num - 1)
         IN  Tup([k \in 1..(3 * Len(smaller)) |->
                     Append(smaller[(k + 2) \div 3], str(2 - ((k - 1) % 3)))])

RECURSIVE generate_ternary_numbers(_)
generate_ternary_numbers(qudits_num) ==
    IF qudits_num = 0
    THEN << <<>> >>
    ELSE LET smaller == generate_ternary_numbers(qudits_num - 1)
         IN  Tup([k \in 1..(3 * Len(smaller)) |->
                     Append(smaller[(k + 2) \div 3], str((k - 1) % 3))])

add_ternary_carry(t1, t2) ==
    Tup([i \in 1..Len(t1) |-> str((int(t1[i]) + int(t2[i]) + 1) % 3)])

add_ternary_saturating(t1, t2) ==
    Tup([i \in 1..Len(t1) |->
            str(IF int(t1[i]) + int(t2[i]) > 2 THEN 2 ELSE int(t1[i]) + int(t2[i]))])

\* component-wise addition modulo 3
add_ternary(t1, t2) ==
    Tup([i \in 1..Len(t1) |-> str((int(t1[i]) + int(t2[i])) % 3)])

update_first(seen_set, cycle) == seen_set \cup {cycle[1]}

\* seen.update(cycle)
update(seen_set, cycle) == seen_set \cup {cycle[i] : i \in 1..Len(cycle)}

(***************************************************************************)
(* Python built-ins and qiskit conventions used by the oracle generators   *)
(* and their verifiers.  Qubit q of a circuit is element q + 1 of the      *)
(* register value.                                                         *)
(***************************************************************************)
\* s[::-1]
reversed_str(s) == Tup([i \in 1..Len(s) |-> s[Len(s) + 1 - i]])

RECURSIVE pow(_, _)
pow(b, e) == IF e = 0 THEN 1 ELSE b * pow(b, e - 1)

RECURSIVE ceil_log2_from(_, _)
ceil_log2_from(m, w) == IF pow(2, w) >= m THEN w ELSE ceil_log2_from(m, w + 1)

\* math.ceil(math.log2(m)) for m >= 1
ceil_log2(m) == ceil_log2_from(m, 0)

\* bin(k)[2:]
RECURSIVE bin(_)
bin(k) == IF k < 2 THEN <<str(k)>> ELSE Append(bin(k \div 2), str(k % 2))

\* s.zfill(width)
zfill(s, width) == IF Len(s) >= width THEN s ELSE zeros(width - Len(s)) \o s

\* format(k, f'0{width}b')
format_b(k, width) == zfill(bin(k), width)

\* range(a, b) as a list
range(a, b) == Tup([i \in 1..(IF b > a THEN b - a ELSE 0) |-> a + i - 1])

\* the concatenation of a list of lists
RECURSIVE Flatten(_)
Flatten(lists) == IF lists = <<>> THEN <<>>
                  ELSE Flatten(SubSeq(lists, 1, Len(lists) - 1)) \o lists[Len(lists)]

\* an X gate on target, controlled on the listed qubits: control k of the list
\* must read character len - 1 - k of ctrl_state (int(ctrl_state, 2), bit k)
Gate(controls, ctrl_state, target) ==
    [controls |-> controls, ctrl_state |-> ctrl_state, target |-> target]

gate_fires_in_string_order(gate, q) ==
    \A k \in 1..Len(gate.controls) :
        q[gate.controls[k] + 1] = int(gate.ctrl_state[k])

gate_fires(gate, q) ==
    \A k \in 1..Len(gate.controls) :
        q[gate.controls[k] + 1] = int(gate.ctrl_state[Len(gate.controls) + 1 - k])

apply_gate(gate, q) ==
    IF gate_fires(gate, q)
    THEN [q EXCEPT ![gate.target + 1] = 1 - q[gate.target + 1]]
    ELSE q

\* the basis state after the gates from position i on
RECURSIVE run_circuit(_, _, _)
run_circuit(gates, i, q) ==
    IF i > Len(gates) THEN q ELSE run_circuit(gates, i + 1, apply_gate(gates[i], q))

\* circuit.measure(range(first, first + count), range(count)) and the key of
\* get_counts(): classical bit count - 1 is the leading character
measure(q, first, count) ==
    Tup([p \in 1..count |-> str(q[first + (count - p) + 1])])

(***************************************************************************)
(* Oracle_Construction generalized_simon_ternary: simon_oracle_3d and the  *)
(* test case of its check_model                                            *)
(***************************************************************************)
RECURSIVE find_cycle_from(_, _, _, _)
find_cycle_from(cur, s, cyc, visited) ==
    IF cur \in visited
    THEN cyc
    ELSE find_cycle_from(add_ternary(cur, s), s, Append(cyc, cur), visited \cup {cur})

find_cycle(start, s) == find_cycle_from(start, s, <<>>, {})

RECURSIVE find_cycles_from(_, _, _, _, _)
find_cycles_from(numbers, i, s, acc, visited) ==
    IF i > Len(numbers)
    THEN acc
    ELSE IF numbers[i] \in visited
    THEN find_cycles_from(numbers, i + 1, s, acc, visited)
    ELSE LET cycle == find_cycle(numbers[i], s)
         IN  find_cycles_from(numbers, i + 1, s, Append(acc, cycle),
                              update(visited, cycle))

find_ternary_cycles(nn, s) ==
    find_cycles_from(generate_ternary_numbers(nn), 1, s, <<>>, {})

\* the gates appended for one number of a cycle: one per '1' of binary_idx
number_gates(nn, number, binary_idx) ==
    LET ctrl_states == ternary_to_binary(number)
        ones == SelectSeq(range(0, Len(binary_idx)),
                          LAMBDA bit_pos : binary_idx[bit_pos + 1] = "1")
    IN  Tup([k \in 1..Len(ones) |->
                Gate(range(0, Len(ctrl_states)), ctrl_states, 2 * nn + ones[k])])

\* the gates appended for one cycle
cycle_gates(nn, cycle_list, cycle_idx) ==
    LET binary_idx == format_b(cycle_idx, ceil_log2(Len(cycle_list)))
        cycle == cycle_list[cycle_idx + 1]
    IN  Flatten(Tup([k \in 1..Len(cycle) |-> number_gates(nn, cycle[k], binary_idx)]))

key_gates_3d_on_register(nn, cycle_list, key) ==
    LET key_string2 == ternary_to_binary(key)
        flipped == SelectSeq(range(0, ceil_log2(Len(cycle_list))),
                             LAMBDA qubit : key_string2[qubit + 1] = "1")
    IN  Tup([k \in 1..Len(flipped) |-> Gate(<<>>, <<>>, 2 * nn + flipped[k])])

\* for qubit in range(2 * n, ceil(log2(len(cycles)))): x on the '1's of the key
key_gates_3d(nn, cycle_list, key) ==
    LET key_string2 == ternary_to_binary(key)
        flipped == SelectSeq(range(2 * nn, ceil_log2(Len(cycle_list))),
                             LAMBDA qubit : key_string2[qubit - nn + 1] = "1")
    IN  Tup([k \in 1..Len(flipped) |-> Gate(<<>>, <<>>, flipped[k])])

simon_oracle_3d(nn, s, key) ==
    LET cycle_list == find_ternary_cycles(nn, s)
    IN  Flatten(Tup([c \in 1..Len(cycle_list) |-> cycle_gates(nn, cycle_list, c - 1)]))
        \o key_gates_3d(nn, cycle_list, key)

\* the qubits of the oracle: qr1 and qr2
oracle_3d_num_qubits(nn, cycle_list) == 2 * nn + ceil_log2(Len(cycle_list))

\* one digit as the pair (q1, q0)
ternary_to_qubits(ternary_str) ==
    Tup([i \in 1..Len(ternary_str) |->
            CASE ternary_str[i] = "0" -> <<0, 0>>
              [] ternary_str[i] = "1" -> <<0, 1>>
              [] ternary_str[i] = "2" -> <<1, 0>>])

\* check_model: x on qubit 2i when q0 = 1 and on qubit 2i + 1 when q1 = 1, for
\* pair i of the reversed input
prepare_3d(num_qubits, ternary_str) ==
    LET qubit_pairs == ternary_to_qubits(reversed_str(ternary_str))
    IN  Tup([q \in 1..num_qubits |->
                IF (q - 1) \div 2 < Len(qubit_pairs)
                THEN IF (q - 1) % 2 = 0
                     THEN qubit_pairs[(q - 1) \div 2 + 1][2]
                     ELSE qubit_pairs[(q - 1) \div 2 + 1][1]
                ELSE 0])

(***************************************************************************)
(* Algorithm_Design check_model of simon and generalized_simon_multi       *)
(***************************************************************************)
\* shots = 10
shots == 10

\* 4 ** (n - 2) is an int only for n >= 2; a float makes range() raise TypeError
t_range_is_int(nn) == nn >= 2

\* min(10, 4 ** (n - 2))
t_range(nn) == IF pow(4, nn - 2) < 10 THEN pow(4, nn - 2) ELSE 10

\* isinstance(prediction, str)
isinstance_str(object) == object.kind = "str"

\* simon: prediction == secret_string
simon_success(object, sec) == object.val = sec

multi_success_either_pairing(object1, object2, sec1, sec2) ==
    \/ object1.val \in {sec1, sec2}
    \/ object2.val \in {sec1, sec2}

\* multi: prediction1 == secret_string1 or prediction2 == secret_string2
multi_success(object1, object2, sec1, sec2) ==
    object1.val = sec1 \/ object2.val = sec2

count_shot_success_only(success, cs, cf) ==
    IF success THEN <<cs + 1, cf>> ELSE <<cs, cf>>

\* cnt_success += 1 or cnt_fail += 1, as <<cnt_success, cnt_fail>>
count_shot(success, cs, cf) ==
    IF success THEN <<cs + 1, cf>> ELSE <<cs, cf + 1>>

\* total_success / (total_fail + total_success)
ratio(ts, tf) == [kind |-> "ratio", num |-> ts, den |-> tf + ts]

\* return -1
minus_one == [kind |-> "int", val |-> -1]

(***************************************************************************)
(* Oracle_Construction simon and generalized_simon_multi: the oracle       *)
(* generators and the test case of their check_model                       *)
(***************************************************************************)
\* s.find(ch): the 0-based position of the first ch, -1 when there is none
find(s, ch) ==
    LET at == {i \in 1..Len(s) : s[i] = ch}
    IN  IF at = {} THEN -1 ELSE Min(at) - 1

\* s[j] for a Python index j, negative counted from the end
getitem(s, j) == IF j < 0 THEN s[Len(s) + j + 1] ELSE s[j + 1]

\* int(s, 2)
RECURSIVE int2(_)
int2(s) == IF s = <<>> THEN 0
           ELSE 2 * int2(SubSeq(s, 1, Len(s) - 1)) + int(s[Len(s)])

\* a ^ b on non-negative integers
RECURSIVE xor(_, _)
xor(a, b) == IF a = 0 /\ b = 0 THEN 0
             ELSE (((a % 2) + (b % 2)) % 2) + 2 * xor(a \div 2, b \div 2)

\* for qubit in range(n): cx(qubit, qubit + n)
copy_gates(nn) == Tup([q \in 1..nn |-> Gate(<<q - 1>>, <<"1">>, q - 1 + nn)])

secret_gates_from_last_one(nn, reversed_secret) ==
    LET i == Len(reversed_secret) - 1 - find(reversed_str(reversed_secret), "1")
        set == SelectSeq(range(0, nn), LAMBDA qubit : reversed_secret[qubit + 1] = "1")
    IN  Tup([k \in 1..Len(set) |-> Gate(<<i>>, <<"1">>, set[k] + nn)])

\* i = secret.find("1"); cx(i, qubit + n) for every qubit with secret[qubit] == "1"
secret_gates(nn, reversed_secret) ==
    LET i == find(reversed_secret, "1")
        set == SelectSeq(range(0, nn), LAMBDA qubit : reversed_secret[qubit + 1] = "1")
    IN  Tup([k \in 1..Len(set) |-> Gate(<<i>>, <<"1">>, set[k] + nn)])

\* for qubit in range(n, 2 * n): x(qubit) when key_string[qubit - n] == "1"
key_gates(nn, reversed_key) ==
    LET set == SelectSeq(range(nn, 2 * nn),
                         LAMBDA qubit : reversed_key[qubit - nn + 1] = "1")
    IN  Tup([k \in 1..Len(set) |-> Gate(<<>>, <<>>, set[k])])

simon_oracle(nn, s, key) ==
    LET reversed_secret == reversed_str(s)
        reversed_key == reversed_str(key)
    IN  copy_gates(nn)
        \o (IF reversed_secret # zeros(nn) THEN secret_gates(nn, reversed_secret)
            ELSE <<>>)
        \o key_gates(nn, reversed_key)

\* gate.control(1) appended with the control on qubit ac: every gate of the
\* block gets ac as one more control that must read 1
controlled(gates, ac) ==
    Tup([k \in 1..Len(gates) |->
            Gate(<<ac>> \o gates[k].controls, <<"1">> \o gates[k].ctrl_state,
                 gates[k].target)])

multi_simon_oracle(nn, sec1, sec2, key) ==
    LET reversed_key == reversed_str(key)
        reversed_s1 == reversed_str(sec1)
        reversed_s2 == reversed_str(sec2)
        ac == 2 * nn
        oracle1 == copy_gates(nn)
                   \o (IF reversed_s1 # zeros(nn) THEN secret_gates(nn, reversed_s1)
                       ELSE <<>>)
        oracle2 == copy_gates(nn)
                   \o (IF reversed_s1 # zeros(nn) THEN secret_gates(nn, reversed_s2)
                       ELSE <<>>)
    IN  controlled(oracle1, ac)
        \o <<Gate(<<>>, <<>>, 2 * nn)>>
        \o controlled(oracle2, ac)
        \o key_gates(nn, reversed_key)

\* check_model: x on qubit q when reversed_x_str[q] == "1"
prepare_bits(num_qubits, nn, input) ==
    Tup([q \in 1..num_qubits |->
            IF q <= nn /\ reversed_str(input)[q] = "1" THEN 1 ELSE 0])

\* simon check_model: correct_output
simon_correct_output(nn, input, s_str, key_str) ==
    LET j == find(reversed_str(s_str), "1")
        c_str == IF getitem(reversed_str(input), j) = "0"
                 THEN input
                 ELSE zfill(bin(xor(int2(input), int2(s_str))), nn)
    IN  zfill(bin(xor(int2(c_str), int2(key_str))), nn)

\* multi check_model: [correct_output_1, correct_output_2]
multi_correct_outputs(input, sec1, sec2, key_str) ==
    {zfill(bin(xor(xor(int2(input), int2(sec1)), int2(key_str))), Len(input)),
     zfill(bin(xor(xor(int2(input), int2(sec2)), int2(key_str))), Len(input))}

(***************************************************************************)
(* generalized_simon_ternary/simon_ternary_generation.py and               *)
(* simon_ternary_post_processing.py run_and_analyze                        *)
(***************************************************************************)
\* cycles = 3 ** n / 3 for n >= 1
ternary_algorithm_cycles(nn) == pow(3, nn) \div 3

\* QuantumCircuit(2 * n + math.ceil(math.log2(cycles)), 2 * n)
ternary_num_qubits(nn) == 2 * nn + ceil_log2(ternary_algorithm_cycles(nn))
ternary_num_clbits(nn) == 2 * nn

\* run_and_analyze after the simulator returned the counts
ternary_run_and_analyze(num_qubits, results) ==
    recover_secret_string_3d(num_qubits \div 2, results)

(***************************************************************************)
(* the n each run_and_analyze derives from circuit.num_qubits              *)
(***************************************************************************)
\* simon_post_processing.run_and_analyze: n = circuit.num_qubits // 2
simon_derived_n(num_qubits) == num_qubits \div 2

\* simon_ternary_post_processing.run_and_analyze: n = circuit.num_qubits // 2
ternary_derived_n(num_qubits) == num_qubits \div 2

\* multi_simon_post_processing.run_and_analyze: n = circuit.num_qubits
multi_derived_n(num_qubits) == num_qubits

(***************************************************************************)
(* Binary Simon: the simulator delivers at most shots = n distinct         *)
(* outcomes of n bits; then either run_and_analyze post-processes them or  *)
(* solve_equation is called on them directly.                              *)
(***************************************************************************)
\* nothing measured and nothing called yet
Idle ==
    /\ pc = "idle"
    /\ counts = <<>>
    /\ prediction = [kind |-> "none"]
    /\ secret_string = <<>>
    /\ ternary_numbers = <<>>
    /\ idx = 0
    /\ cycles = <<>>
    /\ seen = {}
    /\ current = <<>>
    /\ ternary_cycle = <<>>
    /\ seen_cycles = {}
    /\ oracle = <<>>
    /\ key_string = <<>>
    /\ secret_string2 = <<>>
    /\ x_str = <<>>
    /\ qubits = <<>>
    /\ trial = 0
    /\ shot = 0
    /\ cnt_success = 0
    /\ cnt_fail = 0
    /\ total_success = 0
    /\ total_fail = 0
    /\ harness = "none"
    /\ raised = "none"
    /\ check_result = [kind |-> "none"]
    /\ matrix = <<>>
    /\ rref_first = [kind |-> "none"]
    /\ rref_second = [kind |-> "none"]
    /\ rref_loop = [kind |-> "none"]

InitSimon == Idle /\ n \in 2..MaxSimonN

SimonMeasure ==
    /\ pc = "idle"
    /\ Len(counts) < n
    /\ \E o \in Strings({"0", "1"}, n) :
          /\ \A k \in 1..Len(counts) : counts[k] # o
          /\ counts' = Append(counts, o)
    /\ UNCHANGED <<pc, n, prediction, cycle_vars>>
    /\ UNCHANGED ext_vars

SimonRunAndAnalyze ==
    /\ pc = "idle"
    /\ prediction' = simon_run_and_analyze(simon_num_qubits(n), counts)
    /\ pc' = "analyzed"
    /\ UNCHANGED <<n, counts, cycle_vars>>
    /\ UNCHANGED ext_vars

SimonSolveEquation ==
    /\ pc = "idle"
    /\ prediction' =
          solve_equation(Tup([k \in 1..Len(counts) |->
                                 Tup([i \in 1..n |-> int(counts[k][i])])]))
    /\ pc' = "solved"
    /\ UNCHANGED <<n, counts, cycle_vars>>
    /\ UNCHANGED ext_vars

NextSimon == SimonMeasure \/ SimonRunAndAnalyze \/ SimonSolveEquation

SpecSimon == InitSimon /\ [][NextSimon]_vars

\* solve_equation called directly on the measured outcomes, and the call is
\* made eventually: the step that leaves "idle" is the call of solve_equation
NextSolve == SimonMeasure \/ SimonSolveEquation

SimonSolveCall == pc = "idle" /\ pc' = "solved"

SpecSolveFair == InitSimon /\ [][NextSolve]_vars /\ WF_pc(SimonSolveCall)

(***************************************************************************)
(* Ternary Simon: the measured outcomes have two characters per digit;     *)
(* recover_secret_string_3d(n, results) is called on them.                 *)
(***************************************************************************)
InitTernary == Idle /\ n \in 2..MaxTernaryN

\* a measured outcome that encodes a ternary string (no qubit pair reads '11')
TernaryMeasure ==
    /\ pc = "idle"
    /\ Len(counts) < MaxTernaryOutcomes
    /\ \E t \in Strings({"0", "1", "2"}, n) :
          /\ \A k \in 1..Len(counts) : counts[k] # ternary_to_binary(t)
          /\ counts' = Append(counts, ternary_to_binary(t))
    /\ UNCHANGED <<pc, n, prediction, cycle_vars>>
    /\ UNCHANGED ext_vars

\* any outcome of 2n qubit characters, a pair '11' included
TernaryMeasureRaw ==
    /\ pc = "idle"
    /\ Len(counts) < MaxTernaryOutcomes
    /\ \E o \in Strings({"0", "1"}, 2 * n) :
          /\ \A k \in 1..Len(counts) : counts[k] # o
          /\ counts' = Append(counts, o)
    /\ UNCHANGED <<pc, n, prediction, cycle_vars>>
    /\ UNCHANGED ext_vars

TernaryRecover ==
    /\ pc = "idle"
    /\ prediction' = recover_secret_string_3d(n, counts)
    /\ pc' = "recovered"
    /\ UNCHANGED <<n, counts, cycle_vars>>
    /\ UNCHANGED ext_vars

NextTernary == TernaryMeasure \/ TernaryRecover

SpecTernary == InitTernary /\ [][NextTernary]_vars

NextTernaryRaw == TernaryMeasureRaw \/ TernaryRecover

SpecTernaryRaw == InitTernary /\ [][NextTernaryRaw]_vars

(***************************************************************************)
(* Multi-secret Simon: every outcome is the ancilla character followed by  *)
(* n data characters; run_and_analyze buckets and solves them.             *)
(***************************************************************************)
InitMulti == Idle /\ n \in 2..MaxMultiN

MultiMeasure ==
    /\ pc = "idle"
    /\ Len(counts) < MaxMultiOutcomes
    /\ Len(counts) < multi_num_qubits(n)
    /\ \E o \in Strings({"0", "1"}, multi_num_clbits(n)) :
          /\ \A k \in 1..Len(counts) : counts[k] # o
          /\ counts' = Append(counts, o)
    /\ UNCHANGED <<pc, n, prediction, cycle_vars>>
    /\ UNCHANGED ext_vars

MultiRunAndAnalyze ==
    /\ pc = "idle"
    /\ prediction' = multi_run_and_analyze(multi_num_qubits(n), counts)
    /\ pc' = "analyzed"
    /\ UNCHANGED <<n, counts, cycle_vars>>
    /\ UNCHANGED ext_vars

NextMulti == MultiMeasure \/ MultiRunAndAnalyze

SpecMulti == InitMulti /\ [][NextMulti]_vars

(***************************************************************************)
(* find_ternary_cycles(n, s), one step of its loops at a time.             *)
(***************************************************************************)
InitCycles == Idle /\ n = 0

\* the call: ternary_numbers, cycles = [], seen = set()
FindTernaryCycles ==
    /\ pc = "idle"
    /\ \E nn \in 1..MaxCycleN :
          /\ n' = nn
          /\ \E sec \in Strings({"0", "1", "2"}, nn) : secret_string' = Tup(sec)
          /\ ternary_numbers' = generate_ternary_numbers(nn)
    /\ idx' = 1
    /\ cycles' = <<>>
    /\ seen' = {}
    /\ pc' = "for_number"
    /\ UNCHANGED <<counts, prediction, current, ternary_cycle, seen_cycles>>
    /\ UNCHANGED ext_vars

\* for number in ternary_numbers: number already in seen
SkipSeenNumber ==
    /\ pc = "for_number"
    /\ idx <= Len(ternary_numbers)
    /\ ternary_numbers[idx] \in seen
    /\ idx' = idx + 1
    /\ UNCHANGED <<pc, n, counts, prediction, secret_string, ternary_numbers,
                   cycles, seen, current, ternary_cycle, seen_cycles>>
    /\ UNCHANGED ext_vars

\* if number not in seen: find_cycle(number, s) starts
FindCycleStart ==
    /\ pc = "for_number"
    /\ idx <= Len(ternary_numbers)
    /\ ternary_numbers[idx] \notin seen
    /\ current' = ternary_numbers[idx]
    /\ ternary_cycle' = <<>>
    /\ seen_cycles' = {}
    /\ pc' = "find_cycle"
    /\ UNCHANGED <<n, counts, prediction, secret_string, ternary_numbers, idx,
                   cycles, seen>>
    /\ UNCHANGED ext_vars

\* while current not in seen_cycles: one iteration
FindCycleStep ==
    /\ pc = "find_cycle"
    /\ current \notin seen_cycles
    /\ seen_cycles' = seen_cycles \cup {current}
    /\ ternary_cycle' = Append(ternary_cycle, current)
    /\ current' = add_ternary(current, secret_string)
    /\ UNCHANGED <<pc, n, counts, prediction, secret_string, ternary_numbers,
                   idx, cycles, seen>>
    /\ UNCHANGED ext_vars

\* the while loop ends: cycles.append(cycle), seen.update(cycle)
FindCycleReturn ==
    /\ pc = "find_cycle"
    /\ current \in seen_cycles
    /\ cycles' = Append(cycles, ternary_cycle)
    /\ seen' = update(seen, ternary_cycle)
    /\ idx' = idx + 1
    /\ pc' = "for_number"
    /\ UNCHANGED <<n, counts, prediction, secret_string, ternary_numbers,
                   current, ternary_cycle, seen_cycles>>
    /\ UNCHANGED ext_vars

\* the for loop is exhausted: return cycles
ReturnCycles ==
    /\ pc = "for_number"
    /\ idx > Len(ternary_numbers)
    /\ pc' = "returned"
    /\ UNCHANGED <<n, counts, prediction, cycle_vars>>
    /\ UNCHANGED ext_vars

NextCycles ==
    \/ FindTernaryCycles
    \/ SkipSeenNumber
    \/ FindCycleStart
    \/ FindCycleStep
    \/ FindCycleReturn
    \/ ReturnCycles

SpecCycles == InitCycles /\ [][NextCycles]_vars

(***************************************************************************)
(* The ternary oracle and its verifier: simon_oracle_3d(n, s, key) builds  *)
(* the oracle; check_model prepares one string of one cycle on a fresh     *)
(* circuit, appends the oracle and measures the ancilla register.          *)
(***************************************************************************)
MaxOracle3dN == 2

InitOracle3d == Idle /\ n = 0

Oracle3dGenerate ==
    /\ pc = "idle"
    /\ \E nn \in 2..MaxOracle3dN :
          \E sec \in Strings({"0", "1", "2"}, nn) :
              \E key \in Strings({"0", "1", "2"}, nn) :
                  /\ n' = nn
                  /\ secret_string' = Tup(sec)
                  /\ key_string' = Tup(key)
                  /\ oracle' = simon_oracle_3d(nn, Tup(sec), Tup(key))
                  /\ cycles' = find_ternary_cycles(nn, Tup(sec))
    /\ pc' = "generated"
    /\ UNCHANGED <<counts, prediction, ternary_numbers, idx, seen, current,
                   ternary_cycle, seen_cycles, secret_string2, x_str, qubits,
                   harness_vars, rref_vars>>

\* for ternary_str in cycle: the X gates of the input on a fresh circuit
Oracle3dPrepare ==
    /\ pc \in {"generated", "checked"}
    /\ \E cycle_idx \in 0..(Len(cycles) - 1) :
          \E k \in 1..Len(cycles[cycle_idx + 1]) :
              /\ idx' = cycle_idx
              /\ x_str' = cycles[cycle_idx + 1][k]
              /\ qubits' = prepare_3d(oracle_3d_num_qubits(n, cycles),
                                      cycles[cycle_idx + 1][k])
    /\ pc' = "prepared"
    /\ UNCHANGED <<n, counts, prediction, secret_string, ternary_numbers, cycles,
                   seen, current, ternary_cycle, seen_cycles, oracle, key_string,
                   secret_string2, harness_vars, rref_vars>>

\* append the oracle, measure the ancilla register, compare with binary_idx[::-1]
Oracle3dRun ==
    /\ pc = "prepared"
    /\ LET after == run_circuit(oracle, 1, qubits)
           width == ceil_log2(Len(cycles))
           read == measure(after, 2 * n, width)
       IN  /\ qubits' = after
           /\ counts' = <<read>>
           /\ prediction' =
                 [kind |-> "int",
                  val |-> IF reversed_str(format_b(idx, width)) = read THEN 1 ELSE 0]
    /\ pc' = "checked"
    /\ UNCHANGED <<n, secret_string, ternary_numbers, idx, cycles, seen, current,
                   ternary_cycle, seen_cycles, oracle, key_string, secret_string2,
                   x_str, harness_vars, rref_vars>>

NextOracle3d == Oracle3dGenerate \/ Oracle3dPrepare \/ Oracle3dRun

SpecOracle3d == InitOracle3d /\ [][NextOracle3d]_vars

(***************************************************************************)
(* rref_mod3 on its own: a caller builds an integer matrix, calls          *)
(* rref_mod3 on it and then on the matrix that call returned.              *)
(***************************************************************************)
MaxMatrixCells == 6

InitRref == Idle /\ n = 0

\* the argument: any matrix of at most MaxMatrixCells integer entries
RrefArgument ==
    /\ pc = "idle"
    /\ \E rows \in 1..MaxMatrixCells :
          \E cols \in 1..(MaxMatrixCells \div rows) :
              \E M \in [1..rows -> [1..cols -> -1..3]] :
                  matrix' = Tup([i \in 1..rows |-> Tup(M[i])])
    /\ pc' = "argument"
    /\ UNCHANGED <<n, counts, prediction, cycle_vars, oracle_vars, harness_vars,
                   rref_first, rref_second, rref_loop>>

RrefCall ==
    /\ pc = "argument"
    /\ rref_first' = rref_mod3(matrix)
    /\ pc' = "reduced"
    /\ UNCHANGED <<n, counts, prediction, cycle_vars, oracle_vars, harness_vars,
                   matrix, rref_second, rref_loop>>

RrefCallAgain ==
    /\ pc = "reduced"
    /\ rref_second' = rref_mod3(rref_first.mat)
    /\ pc' = "reduced_again"
    /\ UNCHANGED <<n, counts, prediction, cycle_vars, oracle_vars, harness_vars,
                   matrix, rref_first, rref_loop>>

NextRref == RrefArgument \/ RrefCall \/ RrefCallAgain

SpecRref == InitRref /\ [][NextRref]_vars

(***************************************************************************)
(* The multi-secret recovery scenario: two distinct non-zero secrets are   *)
(* fixed; every outcome tagged '0' is orthogonal mod 2 to the first and    *)
(* every outcome tagged '1' to the second; run_and_analyze is called on    *)
(* the pooled outcomes.                                                    *)
(***************************************************************************)
MaxPairN == 3
MaxPairOutcomes == 4

InitPair == Idle /\ n \in 2..MaxPairN

\* secret_string1, secret_string2 of the test case
PairSecrets ==
    /\ pc = "idle"
    /\ secret_string = <<>>
    /\ \E s1, s2 \in Strings({"0", "1"}, n) :
          /\ s1 # s2
          /\ s1 # zeros(n)
          /\ s2 # zeros(n)
          /\ secret_string' = Tup(s1)
          /\ secret_string2' = Tup(s2)
    /\ UNCHANGED <<pc, n, counts, prediction, ternary_numbers, idx, cycles, seen,
                   current, ternary_cycle, seen_cycles, oracle, key_string, x_str,
                   qubits, harness_vars, rref_vars>>

\* one more distinct outcome: the ancilla character, then n data characters
PairMeasure ==
    /\ pc = "idle"
    /\ secret_string # <<>>
    /\ Len(counts) < MaxPairOutcomes
    /\ Len(counts) < multi_num_qubits(n)
    /\ \E o \in Strings({"0", "1"}, multi_num_clbits(n)) :
          /\ \A k \in 1..Len(counts) : counts[k] # o
          /\ LET sec == IF o[1] = "0" THEN secret_string ELSE secret_string2
             IN  (Cardinality({i \in 1..n : o[i + 1] = "1" /\ sec[i] = "1"}) % 2) = 0
          /\ counts' = Append(counts, Tup(o))
    /\ UNCHANGED <<pc, n, prediction, cycle_vars, ext_vars>>

PairRunAndAnalyze == secret_string # <<>> /\ MultiRunAndAnalyze

NextPair == PairSecrets \/ PairMeasure \/ PairRunAndAnalyze

SpecPair == InitPair /\ [][NextPair]_vars

(***************************************************************************)
(* check_model(qasm_string, code_string, n) of the algorithm harness.  The *)
(* files of a trial, the circuit text and the code under test are inputs:  *)
(* the secrets and the values run_and_analyze returns are drawn from a     *)
(* small pool of strings, and a prediction may be something other than a   *)
(* string.                                                                 *)
(***************************************************************************)
MaxHarnessN == 4

HarnessStrings == {<<"0", "1">>, <<"1", "0">>}

HarnessObjects ==
    {[kind |-> "str", val |-> s] : s \in HarnessStrings}
        \cup {[kind |-> "tuple", val |-> <<>>]}

InitHarness == Idle /\ n \in 1..MaxHarnessN

\* the call ends with the caught exception: return -1
HarnessCaught(exception) ==
    /\ raised' = exception
    /\ check_result' = minus_one
    /\ pc' = "returned"

\* lines up to the first trial: the oracle of trial 1 is plugged in and parsed,
\* the code string is executed, the counters start at zero
HarnessCall ==
    /\ pc = "idle"
    /\ \E kind \in {"simon", "multi"} :
       \E plugged, parsed, executed \in BOOLEAN :
          /\ harness' = kind
          /\ IF ~plugged
             THEN /\ raised' = "ValueError"
                  /\ pc' = "raised"
                  /\ UNCHANGED <<check_result, trial>>
             ELSE IF ~parsed
             THEN /\ raised' = "none"
                  /\ check_result' = minus_one
                  /\ pc' = "returned"
                  /\ UNCHANGED trial
             ELSE IF ~executed
             THEN HarnessCaught("Exception") /\ UNCHANGED trial
             ELSE IF ~t_range_is_int(n)
             THEN HarnessCaught("TypeError") /\ UNCHANGED trial
             ELSE /\ trial' = 1
                  /\ pc' = "trial"
                  /\ UNCHANGED <<raised, check_result>>
    /\ total_success' = 0
    /\ total_fail' = 0
    /\ UNCHANGED <<n, counts, prediction, cycle_vars, oracle_vars, rref_vars,
                   shot, cnt_success, cnt_fail>>

\* for t in range(1, 1 + t_range): the files of the trial are read
HarnessTrial ==
    /\ pc = "trial"
    /\ trial <= t_range(n)
    /\ \E loaded, matched \in BOOLEAN :
          IF ~loaded
          THEN /\ HarnessCaught("Exception")
               /\ UNCHANGED <<secret_string, secret_string2, cnt_success, cnt_fail, shot>>
          ELSE IF ~matched
          THEN /\ HarnessCaught("ValueError")
               /\ UNCHANGED <<secret_string, secret_string2, cnt_success, cnt_fail, shot>>
          ELSE /\ \E sec1, sec2 \in HarnessStrings :
                     /\ secret_string' = sec1
                     /\ secret_string2' = IF harness = "multi" THEN sec2 ELSE <<>>
               /\ cnt_success' = 0
               /\ cnt_fail' = 0
               /\ shot' = 0
               /\ pc' = "shot"
               /\ UNCHANGED <<raised, check_result>>
    /\ UNCHANGED <<n, counts, prediction, ternary_numbers, idx, cycles, seen,
                   current, ternary_cycle, seen_cycles, oracle, key_string, x_str,
                   qubits, rref_vars, trial, total_success, total_fail, harness>>

\* for shot in range(shots): one call of run_and_analyze and its verdict
HarnessShot ==
    /\ pc = "shot"
    /\ shot < shots
    /\ \E returned \in BOOLEAN : \E object1, object2 \in HarnessObjects :
          /\ harness = "simon" => object2 = object1
          /\ IF ~returned
             THEN /\ HarnessCaught("Exception")
                  /\ UNCHANGED <<prediction, cnt_success, cnt_fail, shot>>
             ELSE /\ prediction' = IF harness = "multi"
                                   THEN [kind |-> "pair", val |-> <<object1, object2>>]
                                   ELSE object1
                  /\ IF ~isinstance_str(object1) \/ ~isinstance_str(object2)
                     THEN /\ HarnessCaught("TypeError")
                          /\ UNCHANGED <<cnt_success, cnt_fail, shot>>
                     ELSE LET success ==
                                  IF harness = "multi"
                                  THEN multi_success(object1, object2,
                                                     secret_string, secret_string2)
                                  ELSE simon_success(object1, secret_string)
                              counted == count_shot(success, cnt_success, cnt_fail)
                          IN  /\ cnt_success' = counted[1]
                              /\ cnt_fail' = counted[2]
                              /\ shot' = shot + 1
                              /\ UNCHANGED <<pc, raised, check_result>>
    /\ UNCHANGED <<n, counts, cycle_vars, oracle_vars, rref_vars, trial,
                   total_success, total_fail, harness>>

\* the shots of the trial are done: the totals are updated
HarnessTrialEnd ==
    /\ pc = "shot"
    /\ shot = shots
    /\ total_success' = total_success + cnt_success
    /\ total_fail' = total_fail + cnt_fail
    /\ trial' = trial + 1
    /\ pc' = "trial"
    /\ UNCHANGED <<n, counts, prediction, cycle_vars, oracle_vars, rref_vars,
                   shot, cnt_success, cnt_fail, harness, raised, check_result>>

\* return total_success / (total_fail + total_success)
HarnessReturn ==
    /\ pc = "trial"
    /\ trial > t_range(n)
    /\ IF total_fail + total_success = 0
       THEN HarnessCaught("ZeroDivisionError")
       ELSE /\ check_result' = ratio(total_success, total_fail)
            /\ pc' = "returned"
            /\ UNCHANGED raised
    /\ UNCHANGED <<n, counts, prediction, cycle_vars, oracle_vars, rref_vars,
                   trial, shot, cnt_success, cnt_fail, total_success, total_fail,
                   harness>>

NextHarness ==
    \/ HarnessCall
    \/ HarnessTrial
    \/ HarnessShot
    \/ HarnessTrialEnd
    \/ HarnessReturn

SpecHarness == InitHarness /\ [][NextHarness]_vars

(***************************************************************************)
(* The binary oracle and its verifier: simon_oracle(n, s, key) builds the  *)
(* oracle; check_model prepares one input on a fresh circuit, appends the  *)
(* oracle and measures the output register.                                *)
(***************************************************************************)
MaxOracleN == 3

InitOracleSimon == Idle /\ n = 0

OracleSimonGenerate ==
    /\ pc = "idle"
    /\ \E nn \in 2..MaxOracleN :
          \E sec, key \in Strings({"0", "1"}, nn) :
              /\ n' = nn
              /\ secret_string' = Tup(sec)
              /\ key_string' = Tup(key)
              /\ oracle' = simon_oracle(nn, Tup(sec), Tup(key))
    /\ pc' = "generated"
    /\ UNCHANGED <<counts, prediction, ternary_numbers, idx, cycles, seen, current,
                   ternary_cycle, seen_cycles, secret_string2, x_str, qubits,
                   harness_vars, rref_vars>>

\* for x_str in input_states: the X gates of the input on a fresh circuit
OracleSimonPrepare ==
    /\ pc \in {"generated", "checked"}
    /\ \E input \in Strings({"0", "1"}, n) :
          /\ x_str' = Tup(input)
          /\ qubits' = prepare_bits(2 * n, n, Tup(input))
    /\ pc' = "prepared"
    /\ UNCHANGED <<n, counts, prediction, cycle_vars, oracle, key_string,
                   secret_string2, harness_vars, rref_vars>>

\* append the oracle, measure the output register, compare with correct_output
OracleSimonRun ==
    /\ pc = "prepared"
    /\ LET after == run_circuit(oracle, 1, qubits)
           read == measure(after, n, n)
       IN  /\ qubits' = after
           /\ counts' = <<read>>
           /\ prediction' =
                 [kind |-> "int",
                  val |-> IF read # simon_correct_output(n, x_str, secret_string,
                                                         key_string)
                          THEN 0 ELSE 1]
    /\ pc' = "checked"
    /\ UNCHANGED <<n, cycle_vars, oracle, key_string, secret_string2, x_str,
                   harness_vars, rref_vars>>

NextOracleSimon == OracleSimonGenerate \/ OracleSimonPrepare \/ OracleSimonRun

SpecOracleSimon == InitOracleSimon /\ [][NextOracleSimon]_vars

(***************************************************************************)
(* The multi-secret oracle and its verifier: multi_simon_oracle(n, s1, s2, *)
(* key) builds the oracle on 2n + 1 qubits; check_model prepares one input *)
(* (the ancilla stays 0), appends the oracle and measures the output       *)
(* register.                                                               *)
(***************************************************************************)
InitOracleMulti == Idle /\ n = 0

OracleMultiGenerate ==
    /\ pc = "idle"
    /\ \E nn \in 2..MaxOracleN :
          \E sec1, sec2, key \in Strings({"0", "1"}, nn) :
              /\ n' = nn
              /\ secret_string' = Tup(sec1)
              /\ secret_string2' = Tup(sec2)
              /\ key_string' = Tup(key)
              /\ oracle' = multi_simon_oracle(nn, Tup(sec1), Tup(sec2), Tup(key))
    /\ pc' = "generated"
    /\ UNCHANGED <<counts, prediction, ternary_numbers, idx, cycles, seen, current,
                   ternary_cycle, seen_cycles, x_str, qubits, harness_vars,
                   rref_vars>>

OracleMultiPrepare ==
    /\ pc \in {"generated", "checked"}
    /\ \E input \in Strings({"0", "1"}, n) :
          /\ x_str' = Tup(input)
          /\ qubits' = prepare_bits(2 * n + 1, n, Tup(input))
    /\ pc' = "prepared"
    /\ UNCHANGED <<n, counts, prediction, cycle_vars, oracle, key_string,
                   secret_string2, harness_vars, rref_vars>>

OracleMultiRun ==
    /\ pc = "prepared"
    /\ LET after == run_circuit(oracle, 1, qubits)
           read == measure(after, n, n)
       IN  /\ qubits' = after
           /\ counts' = <<read>>
           /\ prediction' =
                 [kind |-> "int",
                  val |-> IF read \notin multi_correct_outputs(
                                             x_str, secret_string, secret_string2,
                                             key_string)
                          THEN 0 ELSE 1]
    /\ pc' = "checked"
    /\ UNCHANGED <<n, cycle_vars, oracle, key_string, secret_string2, x_str,
                   harness_vars, rref_vars>>

NextOracleMulti == OracleMultiGenerate \/ OracleMultiPrepare \/ OracleMultiRun

SpecOracleMulti == InitOracleMulti /\ [][NextOracleMulti]_vars

\* find_ternary_cycles runs to its end: a step that can be taken is taken
SpecCyclesFair == SpecCycles /\ WF_vars(NextCycles)

(***************************************************************************)
(* The two solvers side by side: outcomes of n bits go to the binary       *)
(* solve_equation, outcomes of 2n qubit characters to the ternary          *)
(* recover_secret_string_3d.                                               *)
(***************************************************************************)
MaxSolverN == 3

InitSolvers == Idle /\ n \in 2..MaxSolverN

\* every outcome measured so far has len characters
OutcomesOfLen(len) == \A k \in 1..Len(counts) : Len(counts[k]) = len

SolversSimonMeasure == OutcomesOfLen(n) /\ SimonMeasure

SolversSolveEquation == OutcomesOfLen(n) /\ SimonSolveEquation

SolversTernaryMeasure == OutcomesOfLen(2 * n) /\ TernaryMeasure

SolversRecover == OutcomesOfLen(2 * n) /\ TernaryRecover

NextSolvers ==
    \/ SolversSimonMeasure
    \/ SolversSolveEquation
    \/ SolversTernaryMeasure
    \/ SolversRecover

SpecSolvers == InitSolvers /\ [][NextSolvers]_vars

(***************************************************************************)
(* rref_mod3, one column of its loop at a time.  rref_loop holds M, the    *)
(* row counter r and the column c (both counted from 1: r is the row the   *)
(* next pivot goes to, c the column the next iteration examines),          *)
(* pivot_cols, and pivot_vals, the arguments pow(pivot_val, -1, 3) was     *)
(* called with so far.                                                     *)
(***************************************************************************)
\* M = M.applyfunc(mod3); rows, cols = M.shape; r = 0; pivot_cols = []
RrefLoopEnter ==
    /\ pc = "argument"
    /\ rref_loop' = [M |-> applyfunc_mod3(matrix), r |-> 1, c |-> 1,
                     pivot_cols |-> <<>>, pivot_vals |-> <<>>]
    /\ pc' = "loop"
    /\ UNCHANGED <<n, counts, prediction, cycle_vars, oracle_vars, harness_vars,
                   matrix, rref_first, rref_second>>

\* an iteration that finds no pivot row: continue
RrefLoopSkip ==
    /\ pc = "loop"
    /\ rref_loop.c <= Len(rref_loop.M[1])
    /\ find_pivot_row(rref_loop.M, rref_loop.r, rref_loop.c) = 0
    /\ rref_loop' = [rref_loop EXCEPT !.c = @ + 1]
    /\ UNCHANGED <<pc, n, counts, prediction, cycle_vars, oracle_vars,
                   harness_vars, matrix, rref_first, rref_second>>

\* an iteration that finds a pivot row: swap, normalise, eliminate, record;
\* pow raising ends the call, r == rows breaks out of the loop and returns
RrefLoopPivot ==
    /\ pc = "loop"
    /\ rref_loop.c <= Len(rref_loop.M[1])
    /\ LET M == rref_loop.M
           r == rref_loop.r
           c == rref_loop.c
           pivot_row == find_pivot_row(M, r, c)
           swapped == IF pivot_row # r THEN row_swap(M, pivot_row, r) ELSE M
           pivot_val == swapped[r][c]
           pivot_vals == IF pivot_val # 1
                         THEN Append(rref_loop.pivot_vals, pivot_val)
                         ELSE rref_loop.pivot_vals
       IN  /\ pivot_row # 0
           /\ IF pivot_val # 1 /\ pow_raises(pivot_val)
              THEN /\ rref_loop' = [rref_loop EXCEPT !.M = swapped,
                                                     !.pivot_vals = pivot_vals]
                   /\ pc' = "raised"
                   /\ UNCHANGED rref_first
              ELSE LET reduced == eliminate_column(
                                      normalize_pivot_row(swapped, r, c), r, c)
                       pivot_cols == Append(rref_loop.pivot_cols, c)
                   IN  /\ rref_loop' =
                              [M |-> reduced, r |-> r + 1,
                               c |-> IF r = Len(M) THEN c ELSE c + 1,
                               pivot_cols |-> pivot_cols,
                               pivot_vals |-> pivot_vals]
                       /\ IF r = Len(M)
                          THEN /\ pc' = "returned"
                               /\ rref_first' = [mat |-> reduced,
                                                 pivot_cols |-> pivot_cols]
                          ELSE UNCHANGED <<pc, rref_first>>
    /\ UNCHANGED <<n, counts, prediction, cycle_vars, oracle_vars, harness_vars,
                   matrix, rref_second>>

\* the columns are exhausted: return M, pivot_cols
RrefLoopReturn ==
    /\ pc = "loop"
    /\ rref_loop.c > Len(rref_loop.M[1])
    /\ rref_first' = [mat |-> rref_loop.M, pivot_cols |-> rref_loop.pivot_cols]
    /\ pc' = "returned"
    /\ UNCHANGED <<n, counts, prediction, cycle_vars, oracle_vars, harness_vars,
                   matrix, rref_second, rref_loop>>

NextRrefLoop ==
    \/ RrefArgument
    \/ RrefLoopEnter
    \/ RrefLoopSkip
    \/ RrefLoopPivot
    \/ RrefLoopReturn

SpecRrefLoop == InitRref /\ [][NextRrefLoop]_vars

(***************************************************************************)
(* run_and_analyze of the three variants on the circuit its generator      *)
(* builds for a secret of length n: the simulator returns some distinct    *)
(* outcomes of as many characters as the circuit has classical bits, and   *)
(* the post-processing derives its n from circuit.num_qubits.              *)
(***************************************************************************)
MaxRunN == 3
MaxRunOutcomes == 2

InitRun == Idle /\ n \in 2..MaxRunN

\* the lists of at most MaxRunOutcomes distinct elements of S
GetCounts(S) ==
    UNION {{Tup(f) : f \in {g \in [1..m -> S] :
                               \A i, j \in 1..m : i # j => g[i] # g[j]}} :
           m \in 0..MaxRunOutcomes}

RunAndAnalyzeSimon ==
    /\ pc = "idle"
    /\ \E results \in GetCounts(Strings({"0", "1"}, n)) :
          /\ counts' = results
          /\ prediction' = simon_run_and_analyze(simon_num_qubits(n), results)
    /\ pc' = "simon_analyzed"
    /\ UNCHANGED <<n, cycle_vars>>
    /\ UNCHANGED ext_vars

RunAndAnalyzeTernary ==
    /\ pc = "idle"
    /\ \E results \in GetCounts({ternary_to_binary(t) :
                                    t \in Strings({"0", "1", "2"}, n)}) :
          /\ counts' = results
          /\ prediction' = ternary_run_and_analyze(ternary_num_qubits(n), results)
    /\ pc' = "ternary_analyzed"
    /\ UNCHANGED <<n, cycle_vars>>
    /\ UNCHANGED ext_vars

RunAndAnalyzeMulti ==
    /\ pc = "idle"
    /\ \E results \in GetCounts(Strings({"0", "1"}, multi_num_clbits(n))) :
          /\ counts' = results
          /\ prediction' =
                [kind |-> "pair",
                 val |-> multi_run_and_analyze(multi_num_qubits(n), results)]
    /\ pc' = "multi_analyzed"
    /\ UNCHANGED <<n, cycle_vars>>
    /\ UNCHANGED ext_vars

NextRun == RunAndAnalyzeSimon \/ RunAndAnalyzeTernary \/ RunAndAnalyzeMulti

SpecRun == InitRun /\ [][NextRun]_vars

(***************************************************************************)
(* The ternary oracle handed to simon_ternary_algorithm: the circuit is    *)
(* built for 2n + ceil(log2(3^n / 3)) qubits and the oracle gate appended  *)
(* on all of them; append raises CircuitError when the gate has another    *)
(* number of qubits.                                                       *)
(***************************************************************************)
SimonTernaryAlgorithm ==
    /\ pc = "generated"
    /\ IF oracle_3d_num_qubits(n, cycles) = ternary_num_qubits(n)
       THEN /\ pc' = "circuit"
            /\ qubits' = zeros(ternary_num_qubits(n))
            /\ UNCHANGED raised
       ELSE /\ pc' = "raised"
            /\ raised' = "CircuitError"
            /\ UNCHANGED qubits
    /\ UNCHANGED <<n, counts, prediction, cycle_vars, oracle, key_string,
                   secret_string2, x_str, trial, shot, cnt_success, cnt_fail,
                   total_success, total_fail, harness, check_result, rref_vars>>

NextTernaryCircuit == Oracle3dGenerate \/ SimonTernaryAlgorithm

SpecTernaryCircuit == InitOracle3d /\ [][NextTernaryCircuit]_vars

(***************************************************************************)
(* simon_oracle_3d(n, secret_string, key_string) for every n >= 1: the     *)
(* arguments, then the call.                                               *)
(***************************************************************************)
MaxKeyN == 2

Oracle3dArguments ==
    /\ pc = "idle"
    /\ \E nn \in 1..MaxKeyN :
          \E sec \in Strings({"0", "1", "2"}, nn) :
              \E key \in Strings({"0", "1", "2"}, nn) :
                  /\ n' = nn
                  /\ secret_string' = Tup(sec)
                  /\ key_string' = Tup(key)
    /\ pc' = "arguments"
    /\ UNCHANGED <<counts, prediction, ternary_numbers, idx, cycles, seen,
                   current, ternary_cycle, seen_cycles, oracle, secret_string2,
                   x_str, qubits, harness_vars, rref_vars>>

Oracle3dCall ==
    /\ pc = "arguments"
    /\ oracle' = simon_oracle_3d(n, secret_string, key_string)
    /\ cycles' = find_ternary_cycles(n, secret_string)
    /\ pc' = "generated"
    /\ UNCHANGED <<n, counts, prediction, secret_string, ternary_numbers, idx,
                   seen, current, ternary_cycle, seen_cycles, key_string,
                   secret_string2, x_str, qubits, harness_vars, rref_vars>>

NextOracle3dKeys == Oracle3dArguments \/ Oracle3dCall

SpecOracle3dKeys == InitOracle3d /\ [][NextOracle3dKeys]_vars

(***************************************************************************)
(* Vocabulary of the properties: linear algebra over GF(p), stated         *)
(* without any row reduction.                                              *)
(***************************************************************************)
\* the set of the elements of a list
Elements(list) == {list[i] : i \in 1..Len(list)}

\* the integer vectors of a sequence of digit strings
IntRows(keys) ==
    Tup([k \in 1..Len(keys) |-> Tup([i \in 1..Len(keys[k]) |-> int(keys[k][i])])])

RECURSIVE SumTo(_, _)
SumTo(f, k) == IF k = 0 THEN 0 ELSE f[k] + SumTo(f, k - 1)

Dot(v, w, p) == SumTo([i \in 1..Len(v) |-> v[i] * w[i]], Len(v)) % p

\* no non-trivial combination of the rows vanishes mod p
Independent(rows, p) ==
    \A c \in [1..Len(rows) -> 0..(p - 1)] :
        (\E k \in 1..Len(rows) : c[k] # 0) =>
            \E i \in 1..Len(rows[1]) :
                SumTo([k \in 1..Len(rows) |-> c[k] * rows[k][i]], Len(rows)) % p # 0

\* keys are len - 1 linearly independent non-zero vectors over GF(p)
FullRank(keys, len, p) ==
    /\ Len(keys) = len - 1
    /\ \A k \in 1..Len(keys) : \E i \in 1..Len(keys[k]) : int(keys[k][i]) # 0
    /\ Independent(IntRows(keys), p)

\* sec is non-zero and every key is orthogonal to it mod p
SecretOf(keys, sec, p) ==
    /\ \E i \in 1..Len(sec) : sec[i] # "0"
    /\ \A k \in 1..Len(keys) : Dot(IntRows(keys)[k], IntRows(<<sec>>)[1], p) = 0

\* the ternary strings the measured outcomes encode
Decoded(keys) == Tup([k \in 1..Len(keys) |-> binary_to_ternary(keys[k])])

\* c * sec, digit by digit mod 3
Scale(c, sec) == Tup([i \in 1..Len(sec) |-> str((c * int(sec[i])) % 3)])

\* the multiple of a non-zero sec whose first non-zero digit is 1
LeadingOne(sec) ==
    LET first == Min({i \in 1..Len(sec) : sec[i] # "0"})
    IN  IF sec[first] = "1" THEN sec ELSE Scale(2, sec)

\* the value of a ternary string read as a base-3 number
RECURSIVE Base3(_)
Base3(t) == IF t = <<>> THEN 0
            ELSE 3 * Base3(SubSeq(t, 1, Len(t) - 1)) + int(t[Len(t)])

RECURSIVE Pow3(_)
Pow3(k) == IF k = 0 THEN 1 ELSE 3 * Pow3(k - 1)

RECURSIVE Pow2(_)
Pow2(k) == IF k = 0 THEN 1 ELSE 2 * Pow2(k - 1)

(***************************************************************************)
(* C1: binary round trip.  Whenever solve_equation is given n-1 linearly   *)
(* independent non-zero vectors that are all orthogonal mod 2 to a         *)
(* non-zero secret s, it returns exactly the digit string of s.            *)
(***************************************************************************)
C1_BinaryRoundTrip ==
    (pc = "solved" /\ FullRank(counts, n, 2)) =>
        \A sec \in Strings({"0", "1"}, n) :
            SecretOf(counts, sec, 2) =>
                prediction = [kind |-> "str", val |-> sec]

C1_Witness ==
    /\ pc = "solved"
    /\ n = 3
    /\ FullRank(counts, n, 2)
    /\ SecretOf(counts, <<"0", "1", "1">>, 2)
    /\ prediction = [kind |-> "str", val |-> <<"0", "1", "1">>]

(***************************************************************************)
(* C2: the literal example.  As stated: for the constraint vectors         *)
(* [1,1,0] and [0,1,1], in that order, solve_equation returns "101".       *)
(* As amended: it returns "111", the one non-zero string orthogonal to     *)
(* both vectors mod 2.                                                     *)
(***************************************************************************)
C2_Example == << <<"1", "1", "0">>, <<"0", "1", "1">> >>

C2_LiteralExample_Original ==
    (pc = "solved" /\ counts = C2_Example) =>
        prediction = [kind |-> "str", val |-> <<"1", "0", "1">>]

C2_LiteralExample ==
    (pc = "solved" /\ counts = C2_Example) =>
        prediction = [kind |-> "str", val |-> <<"1", "1", "1">>]

C2_Witness ==
    /\ pc = "solved"
    /\ counts = C2_Example
    /\ prediction.kind = "str"
    /\ SecretOf(counts, prediction.val, 2)

(***************************************************************************)
(* C3: ternary round trip.  As stated: given outcomes that encode n-1      *)
(* linearly independent non-zero vectors orthogonal mod 3 to a non-zero    *)
(* secret s, recover_secret_string_3d returns exactly the digit string of  *)
(* s.  As amended: it returns the digit string of s when the first         *)
(* non-zero digit of s is 1, and of 2*s mod 3 when that digit is 2.        *)
(***************************************************************************)
C3_TernaryRoundTrip_Original ==
    (pc = "recovered" /\ FullRank(Decoded(counts), n, 3)) =>
        \A sec \in Strings({"0", "1", "2"}, n) :
            SecretOf(Decoded(counts), sec, 3) =>
                prediction = [kind |-> "str", val |-> sec]

C3_TernaryRoundTrip ==
    (pc = "recovered" /\ FullRank(Decoded(counts), n, 3)) =>
        \A sec \in Strings({"0", "1", "2"}, n) :
            SecretOf(Decoded(counts), sec, 3) =>
                prediction = [kind |-> "str", val |-> LeadingOne(sec)]

C3_Witness ==
    /\ pc = "recovered"
    /\ n = 3
    /\ FullRank(Decoded(counts), n, 3)
    /\ SecretOf(Decoded(counts), <<"0", "2", "1">>, 3)
    /\ prediction = [kind |-> "str", val |-> <<"0", "1", "2">>]

(***************************************************************************)
(* C4: ternary acceptance.  For outcomes that encode n-1 independent       *)
(* vectors orthogonal mod 3 to a non-zero secret s, the string returned by *)
(* recover_secret_string_3d is one of the strings the verification harness *)
(* counts as success: s itself or s + s (component-wise mod 3).            *)
(***************************************************************************)
C4_TernaryAcceptance ==
    (pc = "recovered" /\ FullRank(Decoded(counts), n, 3)) =>
        \A sec \in Strings({"0", "1", "2"}, n) :
            SecretOf(Decoded(counts), sec, 3) =>
                /\ prediction.kind = "str"
                /\ prediction.val \in equivalents(sec)

C4_Witness ==
    /\ pc = "recovered"
    /\ n = 3
    /\ FullRank(Decoded(counts), n, 3)
    /\ SecretOf(Decoded(counts), <<"2", "0", "1">>, 3)
    /\ prediction.kind = "str"
    /\ prediction.val = rotated_string(<<"2", "0", "1">>)

(***************************************************************************)
(* C5: degenerate input.  When no non-zero outcome was collected, the      *)
(* binary run_and_analyze and the ternary recover_secret_string_3d each    *)
(* return the all-zero digit string of length n as an ordinary string, the *)
(* shape of every other result of the function.                            *)
(***************************************************************************)
C5_DegenerateInput ==
    /\ (pc = "analyzed" /\ \A k \in 1..Len(counts) : counts[k] = zeros(n)) =>
           prediction = [kind |-> "str", val |-> zeros(n)]
    /\ (pc = "recovered" /\ \A k \in 1..Len(counts) : counts[k] = zeros(2 * n)) =>
           prediction = [kind |-> "str", val |-> zeros(n)]

(***************************************************************************)
(* C6: the all-zero outcome is dropped in the multi-secret pipeline.       *)
(* run_and_analyze never makes an outcome whose n data bits are all zero   *)
(* an equation row of either bucket, so a bucket whose only outcome is     *)
(* all-zero is solved exactly like an empty bucket.                        *)
(***************************************************************************)
C6_AllZeroDropped ==
    pc = "analyzed" =>
        /\ \A bucket \in {dic1(counts), dic2(counts)} :
              \A row \in Elements(multi_equations(multi_num_qubits(n), bucket)) :
                  \E i \in 1..Len(row) : row[i] # 0
        /\ dic2(counts) = <<zeros(n)>> =>
              prediction[1] = recover_secret_string(multi_num_qubits(n), <<>>)
        /\ dic1(counts) = <<zeros(n)>> =>
              prediction[2] = recover_secret_string(multi_num_qubits(n), <<>>)

(***************************************************************************)
(* C7: malformed samples fail loudly.  When recover_secret_string_3d       *)
(* ingests an outcome with a qubit pair '11' (the digit 3), the solve is   *)
(* aborted with an error: no string, computed with that digit reduced      *)
(* mod 3, is returned.                                                     *)
(***************************************************************************)
Malformed(keys) ==
    \E k \in 1..Len(keys) : \E i \in 1..Len(binary_to_ternary(keys[k])) :
        binary_to_ternary(keys[k])[i] = "3"

C7_MalformedFailsLoudly ==
    (pc = "recovered" /\ Malformed(counts)) =>
        prediction.kind \notin {"str", "tuple"}

(***************************************************************************)
(* C8: cycle partition.  The cycles returned by find_ternary_cycles(n, s)  *)
(* are pairwise disjoint, contain no repeated string, and their union is   *)
(* the set of all 3^n ternary strings of length n.                         *)
(***************************************************************************)
C8_CyclePartition ==
    pc = "returned" =>
        /\ \A c \in 1..Len(cycles) : \A i, j \in 1..Len(cycles[c]) :
              i # j => cycles[c][i] # cycles[c][j]
        /\ \A c, d \in 1..Len(cycles) :
              c # d => Elements(cycles[c]) \cap Elements(cycles[d]) = {}
        /\ UNION {Elements(cycles[c]) : c \in 1..Len(cycles)}
              = {Tup(t) : t \in Strings({"0", "1", "2"}, n)}

C8_Witness ==
    /\ pc = "returned"
    /\ n = 3
    /\ secret_string = <<"1", "0", "2">>
    /\ Len(cycles) = 9
    /\ Cardinality(UNION {Elements(cycles[c]) : c \in 1..Len(cycles)}) = 27

(***************************************************************************)
(* C9: cycle structure.  For the all-zero secret find_ternary_cycles       *)
(* returns 3^n cycles of length 1; for every non-zero secret it returns    *)
(* 3^(n-1) cycles, each of length exactly 3.                               *)
(***************************************************************************)
C9_CycleStructure ==
    pc = "returned" =>
        IF secret_string = zeros(n)
        THEN /\ Len(cycles) = Pow3(n)
             /\ \A c \in 1..Len(cycles) : Len(cycles[c]) = 1
        ELSE /\ Len(cycles) = Pow3(n - 1)
             /\ \A c \in 1..Len(cycles) : Len(cycles[c]) = 3

C9_Witness ==
    /\ pc = "returned"
    /\ n = 2
    /\ secret_string = zeros(2)
    /\ Len(cycles) = 9
    /\ cycles[9] = << <<"2", "2">> >>

(***************************************************************************)
(* C10: cycle ordering.  The k-th cycle begins with the smallest string,   *)
(* in base-3 counting order, that is in none of the earlier cycles; every  *)
(* later element is the previous element plus s component-wise mod 3; and  *)
(* for n = 2, s = '12' the result is exactly                               *)
(* [['00','12','21'], ['01','10','22'], ['02','11','20']].                 *)
(***************************************************************************)
C10_Example ==
    << << <<"0", "0">>, <<"1", "2">>, <<"2", "1">> >>,
       << <<"0", "1">>, <<"1", "0">>, <<"2", "2">> >>,
       << <<"0", "2">>, <<"1", "1">>, <<"2", "0">> >> >>

C10_CycleOrdering ==
    pc = "returned" =>
        /\ \A k \in 1..Len(cycles) :
              LET earlier == UNION {Elements(cycles[c]) : c \in 1..(k - 1)}
              IN  /\ cycles[k][1] \notin earlier
                  /\ \A t \in Strings({"0", "1", "2"}, n) :
                        Base3(Tup(t)) < Base3(cycles[k][1]) => Tup(t) \in earlier
        /\ \A k \in 1..Len(cycles) : \A i \in 2..Len(cycles[k]) :
              \A d \in 1..n :
                  int(cycles[k][i][d]) =
                      (int(cycles[k][i - 1][d]) + int(secret_string[d])) % 3
        /\ (n = 2 /\ secret_string = <<"1", "2">>) => cycles = C10_Example

C10_Witness ==
    /\ pc = "returned"
    /\ n = 2
    /\ secret_string = <<"1", "2">>
    /\ cycles = C10_Example

(***************************************************************************)
(* C11: the ternary oracle encodes the orbit index.  On the basis state of *)
(* a valid ternary input t, simon_oracle_3d flips ancilla qubit bit_pos    *)
(* exactly when character bit_pos of the fixed-width binary index of the   *)
(* cycle of t is '1'; the function f read on the ancilla register has      *)
(* f(t) = f(t') exactly when t' = t + j*s (mod 3) for some j in {0,1,2};   *)
(* and the reading the verifier expects, that index reversed, is the one   *)
(* measured.                                                               *)
(***************************************************************************)
\* the 0-based position of the cycle that contains string
CycleIndexOf(string) ==
    CHOOSE c \in 0..(Len(cycles) - 1) : string \in Elements(cycles[c + 1])

\* character bit_pos (0-based, most significant first) of k written on width bits
IndexBit(k, width, bit_pos) == (k \div Pow2(width - 1 - bit_pos)) % 2

\* the ancilla register after the oracle acted on the basis state of string
AncillaOf(string) ==
    LET after == run_circuit(oracle, 1,
                             prepare_3d(oracle_3d_num_qubits(n, cycles), string))
    IN  SubSeq(after, 2 * n + 1, Len(after))

C11_OrbitIndex ==
    /\ pc = "checked" =>
          LET width == Len(qubits) - 2 * n
          IN  /\ Pow2(width) >= Len(cycles)
              /\ \A bit_pos \in 0..(width - 1) :
                    qubits[2 * n + bit_pos + 1] =
                        IndexBit(CycleIndexOf(x_str), width, bit_pos)
              /\ counts = << Tup([p \in 1..width |->
                                  str(IndexBit(CycleIndexOf(x_str), width, width - p))]) >>
              /\ prediction = [kind |-> "int", val |-> 1]
    /\ pc = "generated" =>
          \A s1, s2 \in Strings({"0", "1", "2"}, n) :
              (AncillaOf(Tup(s1)) = AncillaOf(Tup(s2))) <=>
                  (\E j \in 0..2 : Tup(s2) = add_ternary(Tup(s1), Scale(j, secret_string)))

C11_Witness ==
    /\ pc = "checked"
    /\ n = 2
    /\ secret_string = <<"1", "2">>
    /\ x_str = <<"2", "2">>
    /\ qubits = <<0, 1, 0, 1, 0, 1>>
    /\ counts = << <<"1", "0">> >>

(***************************************************************************)
(* C12: idempotent reduction.  For every integer matrix M, rref_mod3       *)
(* applied to the matrix returned by rref_mod3(M) returns an identical     *)
(* matrix and the same pivot columns.                                      *)
(***************************************************************************)
C12_Idempotent ==
    pc = "reduced_again" =>
        /\ rref_second.mat = rref_first.mat
        /\ rref_second.pivot_cols = rref_first.pivot_cols

C12_Witness ==
    /\ pc = "reduced_again"
    /\ matrix = << <<0, 2, -1>>, <<2, 3, 1>> >>
    /\ rref_first.mat # matrix
    /\ rref_first.pivot_cols = <<1, 2>>
    /\ rref_second = rref_first

(***************************************************************************)
(* C13: multi-secret bucketing and pairing.  run_and_analyze puts every    *)
(* measured outcome into exactly one of two buckets by its leading ancilla *)
(* character and strips that character; prediction2 is a function of the   *)
(* outcomes tagged '1' alone and prediction1 of the outcomes tagged '0'    *)
(* alone.                                                                  *)
(***************************************************************************)
\* the outcomes whose leading character is tag, without it, in measured order
Tagged(keys, tag) ==
    LET with_tag == SelectSeq(keys, LAMBDA o : o[1] = tag)
    IN  Tup([k \in 1..Len(with_tag) |-> SubSeq(with_tag[k], 2, Len(with_tag[k]))])

\* the outcomes whose leading character is tag, as measured
OnlyTag(keys, tag) == SelectSeq(keys, LAMBDA o : o[1] = tag)

C13_Bucketing ==
    pc = "analyzed" =>
        /\ dic1(counts) = Tagged(counts, "1")
        /\ dic2(counts) = Tagged(counts, "0")
        /\ Len(dic1(counts)) + Len(dic2(counts)) = Len(counts)
        /\ prediction[2] =
              recover_secret_string(multi_num_qubits(n), Tagged(counts, "1"))
        /\ prediction[1] =
              recover_secret_string(multi_num_qubits(n), Tagged(counts, "0"))
        /\ prediction[2] =
              multi_run_and_analyze(multi_num_qubits(n), OnlyTag(counts, "1"))[2]
        /\ prediction[1] =
              multi_run_and_analyze(multi_num_qubits(n), OnlyTag(counts, "0"))[1]
        /\ \A o \in Strings({"0", "1"}, n) :
              /\ multi_run_and_analyze(multi_num_qubits(n),
                                       <<<<"0">> \o o>> \o OnlyTag(counts, "1"))[2]
                     = prediction[2]
              /\ multi_run_and_analyze(multi_num_qubits(n),
                                       <<<<"1">> \o o>> \o OnlyTag(counts, "0"))[1]
                     = prediction[1]

C13_Witness ==
    /\ pc = "analyzed"
    /\ n = 2
    /\ counts = << <<"1", "0", "1">>, <<"0", "1", "1">>, <<"1", "1", "1">> >>
    /\ dic1(counts) = << <<"0", "1">>, <<"1", "1">> >>
    /\ dic2(counts) = << <<"1", "1">> >>
    /\ prediction[1] # prediction[2]

(***************************************************************************)
(* C14: multi-secret recovery.  For two distinct non-zero secrets s1, s2   *)
(* of length n, when the outcomes tagged '0' contain n-1 independent       *)
(* vectors orthogonal to s1 and the outcomes tagged '1' contain n-1        *)
(* independent vectors orthogonal to s2 (mod 2), run_and_analyze returns   *)
(* exactly (s1, s2).                                                       *)
(***************************************************************************)
\* the vectors that are sums mod 2 of some of the rows
Span2(rows, len) ==
    {Tup([i \in 1..len |->
             SumTo([k \in 1..Len(rows) |-> c[k] * rows[k][i]], Len(rows)) % 2]) :
        c \in [1..Len(rows) -> 0..1]}

\* keys hold len - 1 independent vectors, and every key is orthogonal to sec
Determines(keys, sec, len) ==
    /\ SecretOf(keys, sec, 2)
    /\ Cardinality(Span2(IntRows(keys), len)) = Pow2(len - 1)

C14_PairRecovered ==
    (/\ pc = "analyzed"
     /\ Determines(Tagged(counts, "0"), secret_string, n)
     /\ Determines(Tagged(counts, "1"), secret_string2, n)) =>
        prediction = <<secret_string, secret_string2>>

C14_Witness ==
    /\ pc = "analyzed"
    /\ n = 3
    /\ secret_string = <<"1", "1", "0">>
    /\ secret_string2 = <<"0", "1", "1">>
    /\ Determines(Tagged(counts, "0"), secret_string, n)
    /\ Determines(Tagged(counts, "1"), secret_string2, n)
    /\ counts[1][1] = "1"
    /\ prediction = <<secret_string, secret_string2>>

(***************************************************************************)
(* C15: multi-secret success criterion.  As stated: the harness counts a   *)
(* shot as a success when either recovered value matches either expected   *)
(* secret (an OR over both pairings), so a swapped pair, prediction1 =      *)
(* secret 2 and prediction2 = secret 1, is a success too.  As amended: a    *)
(* shot is a success exactly when prediction1 equals secret_string1 or      *)
(* prediction2 equals secret_string2; a swapped pair of two different       *)
(* secrets is counted as a failure.                                        *)
(***************************************************************************)
\* a shot of the multi-secret harness has just been counted
MultiShotCounted == pc = "shot" /\ harness = "multi" /\ shot' = shot + 1

C15_EitherPairing_Original ==
    [][MultiShotCounted =>
          ((cnt_success' = cnt_success + 1) <=>
              (\/ prediction'.val[1].val \in {secret_string, secret_string2}
               \/ prediction'.val[2].val \in {secret_string, secret_string2}))]_vars

C15_AlignedPairing ==
    [][MultiShotCounted =>
          /\ (cnt_success' = cnt_success + 1) <=>
                (\/ prediction'.val[1].val = secret_string
                 \/ prediction'.val[2].val = secret_string2)
          /\ (/\ secret_string # secret_string2
              /\ prediction'.val[1].val = secret_string2
              /\ prediction'.val[2].val = secret_string) =>
                 (cnt_fail' = cnt_fail + 1 /\ cnt_success' = cnt_success)]_vars

C15_Witness ==
    /\ pc = "shot"
    /\ harness = "multi"
    /\ shot = 1
    /\ secret_string = <<"0", "1">>
    /\ secret_string2 = <<"1", "0">>
    /\ prediction = [kind |-> "pair",
                     val |-> <<[kind |-> "str", val |-> <<"1", "0">>],
                               [kind |-> "str", val |-> <<"0", "1">>]>>]
    /\ cnt_success = 0
    /\ cnt_fail = 1

(***************************************************************************)
(* C16: harness outcome accounting.  check_model returns -1 when the       *)
(* plugged-in circuit text fails to parse or when an exception is raised   *)
(* during the evaluation; otherwise every shot increments exactly one of   *)
(* cnt_success and cnt_fail, after all trials total_success + total_fail = *)
(* 10 * min(10, 4^(n-2)), and the returned value is total_success /        *)
(* (total_success + total_fail), a number between 0 and 1.                 *)
(***************************************************************************)
\* 10 * min(10, 4^(n-2)) for n >= 2
ExpectedShots == 10 * (IF n = 2 THEN 1 ELSE IF n = 3 THEN 4 ELSE 10)

ReturnedAsClaimed ==
    IF raised # "none" \/ trial = 0
    THEN check_result = [kind |-> "int", val |-> -1]
    ELSE /\ check_result.kind = "ratio"
         /\ total_success + total_fail = ExpectedShots
         /\ check_result.num = total_success
         /\ check_result.den = total_success + total_fail
         /\ 0 <= check_result.num
         /\ check_result.num <= check_result.den
         /\ check_result.den > 0

C16_Accounting ==
    [][/\ pc' = "returned" => ReturnedAsClaimed'
       /\ (pc = "shot" /\ shot' = shot + 1) =>
             \/ cnt_success' = cnt_success + 1 /\ cnt_fail' = cnt_fail
             \/ cnt_success' = cnt_success /\ cnt_fail' = cnt_fail + 1]_vars

C16_Witness ==
    /\ pc = "returned"
    /\ n = 4
    /\ harness = "simon"
    /\ raised = "none"
    /\ check_result = [kind |-> "ratio", num |-> 37, den |-> 100]
    /\ total_fail = 63

(***************************************************************************)
(* C17: the binary oracle computes what its verifier expects.  On the      *)
(* basis input x the output register of simon_oracle(n, s, k) reads        *)
(* c XOR k, where c = x when the bit of x at the position of the lowest    *)
(* set bit of s is 0 (or s is all-zero) and c = x XOR s otherwise; so two  *)
(* inputs x, y give the same output exactly when y is x or x XOR s.        *)
(***************************************************************************)
\* the character-wise exclusive or of two bit strings
XorStr(a, b) == Tup([i \in 1..Len(a) |-> IF a[i] = b[i] THEN "0" ELSE "1"])

\* the claimed c for input x and secret s: the lowest bit is the last character
MaskedBy(x, s) ==
    LET set == {i \in 1..Len(s) : s[i] = "1"}
        lowest == CHOOSE i \in set : \A k \in set : k <= i
    IN  IF set = {} \/ x[lowest] = "0" THEN x ELSE XorStr(x, s)

\* the output register of the oracle in the state, on the basis input x
OutputOf(x) ==
    measure(run_circuit(oracle, 1, prepare_bits(Len(qubits), n, x)), n, n)

C17_SimonOracleFunction ==
    /\ pc = "checked" =>
          /\ counts = <<XorStr(MaskedBy(x_str, secret_string), key_string)>>
          /\ prediction = [kind |-> "int", val |-> 1]
          /\ \A y \in Strings({"0", "1"}, n) :
                (OutputOf(Tup(y)) = counts[1]) <=>
                    (Tup(y) = x_str \/ Tup(y) = XorStr(x_str, secret_string))

C17_Witness ==
    /\ pc = "checked"
    /\ n = 3
    /\ secret_string = <<"1", "1", "0">>
    /\ key_string = <<"0", "1", "1">>
    /\ x_str = <<"0", "1", "1">>
    /\ counts = << <<"1", "1", "0">> >>

(***************************************************************************)
(* C18: the multi-secret oracle computes what its verifier expects.  On    *)
(* every basis input x with the ancilla qubit 0, the output register of    *)
(* multi_simon_oracle(n, s1, s2, key) reads x XOR s1 XOR key or            *)
(* x XOR s2 XOR key.                                                       *)
(***************************************************************************)
C18_MultiOracleFunction ==
    pc = "checked" =>
        /\ Len(counts) = 1
        /\ counts[1] \in {XorStr(XorStr(x_str, secret_string), key_string),
                          XorStr(XorStr(x_str, secret_string2), key_string)}

(***************************************************************************)
(* C19: which row of the reduced matrix the two solvers read.  The claim   *)
(* says that both the binary solve_equation and the ternary                *)
(* recover_secret_string_3d decide from the last row alone: that row's     *)
(* identity block if its equation block is all zero mod p, the all-zero    *)
(* string otherwise.  C19_LastRowBoth_Original states this for both        *)
(* solvers.  The ternary loop keeps the FIRST row whose equation block is  *)
(* all zero (null_space_found latches), so                                 *)
(* C19_LastRowBinaryFirstRowTernary states: solve_equation follows the     *)
(* last-row policy, and                                                    *)
(* recover_secret_string_3d returns the identity block of the first row    *)
(* with an all-zero equation block, the all-zero string when no row has    *)
(* one.                                                                    *)
(***************************************************************************)
\* the reduced augmented matrix of solve_equation, entries mod 2
SimonReduced(keys) ==
    applyfunc_mod2(rref(hstack_eye(Transpose(IntRows(keys)))).mat)

\* the reduced augmented matrix of recover_secret_string_3d, entries mod 3
TernaryReduced(nn, keys) ==
    applyfunc_mod3(rref_mod3(hstack_eye(
        Transpose(applyfunc_mod3(ternary_equations(nn, keys))))).mat)

\* the rows of R whose first mcols entries are all zero mod p
ZeroBlockRows(R, mcols, p) ==
    {i \in 1..Len(R) : \A j \in 1..mcols : R[i][j] % p = 0}

\* the entries of row i right of the first mcols, as a string
IdentityBlock(R, i, mcols) ==
    Tup([j \in 1..(Len(R[i]) - mcols) |-> str(R[i][mcols + j])])

\* val is what the last row alone decides
LastRowPolicy(R, mcols, p, val) ==
    IF Len(R) \in ZeroBlockRows(R, mcols, p)
    THEN val = IdentityBlock(R, Len(R), mcols)
    ELSE val = zeros(Len(R))

\* val is the identity block of the first row with an all-zero equation block
FirstRowPolicy(R, mcols, p, val) ==
    IF ZeroBlockRows(R, mcols, p) # {}
    THEN val = IdentityBlock(R, Min(ZeroBlockRows(R, mcols, p)), mcols)
    ELSE val = zeros(Len(R))

SolvedBinary == pc = "solved" /\ counts # <<>>

RecoveredTernary == pc = "recovered" /\ ternary_equations(n, counts) # <<>>

C19_LastRowBoth_Original ==
    /\ SolvedBinary =>
          LastRowPolicy(SimonReduced(counts), Len(counts), 2, prediction.val)
    /\ RecoveredTernary =>
          LastRowPolicy(TernaryReduced(n, counts),
                        Len(ternary_equations(n, counts)), 3, prediction.val)

C19_LastRowBinaryFirstRowTernary ==
    /\ SolvedBinary =>
          LastRowPolicy(SimonReduced(counts), Len(counts), 2, prediction.val)
    /\ RecoveredTernary =>
          FirstRowPolicy(TernaryReduced(n, counts),
                         Len(ternary_equations(n, counts)), 3, prediction.val)

\* the ternary solver returned on a matrix with several all-zero equation
\* blocks, and the first and the last of them carry different strings
C19_Witness ==
    /\ RecoveredTernary
    /\ LET R == TernaryReduced(n, counts)
           mcols == Len(ternary_equations(n, counts))
           sol == ZeroBlockRows(R, mcols, 3)
       IN  /\ Cardinality(sol) >= 2
           /\ Len(R) \in sol
           /\ IdentityBlock(R, Min(sol), mcols) # IdentityBlock(R, Len(R), mcols)
           /\ prediction.val = IdentityBlock(R, Min(sol), mcols)

(***************************************************************************)
(* C20: a false "trivial" report of the binary solve_equation.  The claim  *)
(* says that there are inputs for which an earlier row of the reduced      *)
(* augmented matrix has an all-zero equation block while the last row has  *)
(* not, so that the all-zero string is returned although a solution        *)
(* existed: C20_FalseTrivial_Original states that such a call happens.     *)
(* The reduction puts the rows with a pivot in the equation block first,   *)
(* and every row below them has an all-zero equation block mod 2, so       *)
(* C20_NoFalseTrivial states: after every call of solve_equation on the    *)
(* measured outcomes, if any row of the reduced matrix has an all-zero     *)
(* equation block then the last row has one, and whenever a non-zero       *)
(* string orthogonal to every equation exists the returned string is such  *)
(* a string, never the all-zero one.                                       *)
(***************************************************************************)
\* a non-zero string of len bits is orthogonal mod 2 to every key
HasSolution(keys, len) ==
    \E v \in Strings({"0", "1"}, len) : SecretOf(keys, v, 2)

\* solve_equation returned '0' * n although an earlier row qualified
FalseTrivial ==
    /\ SolvedBinary
    /\ LET sol == ZeroBlockRows(SimonReduced(counts), Len(counts), 2)
       IN  /\ sol # {}
           /\ n \notin sol
    /\ prediction.val = zeros(n)

C20_FalseTrivial_Original == <>FalseTrivial

C20_NoFalseTrivial ==
    SolvedBinary =>
        LET sol == ZeroBlockRows(SimonReduced(counts), Len(counts), 2)
        IN  /\ sol # {} => n \in sol
            /\ sol # {} <=> HasSolution(counts, n)
            /\ HasSolution(counts, n) => SecretOf(counts, prediction.val, 2)

\* solve_equation returned on a matrix in which a row before the last one has
\* an all-zero equation block: the answer is the last row's non-zero string
C20_Witness ==
    /\ SolvedBinary
    /\ n = 3
    /\ LET R == SimonReduced(counts)
           sol == ZeroBlockRows(R, Len(counts), 2)
       IN  /\ \E i \in sol : i < n
           /\ prediction.val = IdentityBlock(R, n, Len(counts))
    /\ prediction.val # zeros(n)

(***************************************************************************)
(* C21: where the row reducers select their pivots.  The claim says that   *)
(* in reducing [M^T | I] both reducers (rref_mod3 for p = 3, the rref call *)
(* for p = 2) select pivot columns only among the columns of the collected *)
(* equations, never inside the identity block:                             *)
(* C21_PivotsInEquationBlock_Original.  Both reducers scan every column of *)
(* the augmented matrix, so C21_PivotsInBothBlocks states: the reducer     *)
(* selects as many pivots as the matrix has rows, one per row; the pivots  *)
(* inside the identity block are as many as the rows whose equation block  *)
(* is all zero mod p, so a pivot lies inside the identity block whenever   *)
(* such a row exists.                                                      *)
(***************************************************************************)
\* the pivot columns (counted from 1) the rref call of solve_equation returns
SimonPivotCols(keys) == rref(hstack_eye(Transpose(IntRows(keys)))).pivot_cols

\* the pivot columns (counted from 1) rref_mod3 returns to recover_secret_string_3d
TernaryPivotCols(nn, keys) ==
    rref_mod3(hstack_eye(
        Transpose(applyfunc_mod3(ternary_equations(nn, keys))))).pivot_cols

\* the positions of pivot_cols that lie right of the first mcols columns
IdentityPivots(pivot_cols, mcols) ==
    {i \in 1..Len(pivot_cols) : pivot_cols[i] > mcols}

PivotsInBothBlocks(pivot_cols, R, mcols, p) ==
    /\ Len(pivot_cols) = Len(R)
    /\ Cardinality(IdentityPivots(pivot_cols, mcols))
          = Cardinality(ZeroBlockRows(R, mcols, p))

C21_PivotsInEquationBlock_Original ==
    /\ SolvedBinary =>
          IdentityPivots(SimonPivotCols(counts), Len(counts)) = {}
    /\ RecoveredTernary =>
          IdentityPivots(TernaryPivotCols(n, counts),
                         Len(ternary_equations(n, counts))) = {}

C21_PivotsInBothBlocks ==
    /\ SolvedBinary =>
          PivotsInBothBlocks(SimonPivotCols(counts), SimonReduced(counts),
                             Len(counts), 2)
    /\ RecoveredTernary =>
          PivotsInBothBlocks(TernaryPivotCols(n, counts),
                             TernaryReduced(n, counts),
                             Len(ternary_equations(n, counts)), 3)

\* recover_secret_string_3d returned after rref_mod3 selected a pivot inside
\* the identity block of a matrix with two equations
C21_Witness ==
    /\ RecoveredTernary
    /\ Len(ternary_equations(n, counts)) = 2
    /\ IdentityPivots(TernaryPivotCols(n, counts), 2) # {}
    /\ prediction.val # zeros(n)

(***************************************************************************)
(* C22: the matrix returned by rref_mod3.  Every entry is in {0, 1, 2};    *)
(* every returned pivot column has entry 1 in its pivot row and 0 in every *)
(* other row; the pivot columns are strictly increasing and the i-th pivot *)
(* is in row i; every row below the last pivot row is all zero.            *)
(***************************************************************************)
ReducedForm(R, pivot_cols) ==
    /\ \A i \in 1..Len(R) : \A j \in 1..Len(R[i]) : R[i][j] \in {0, 1, 2}
    /\ Len(pivot_cols) <= Len(R)
    /\ \A i \in 1..Len(pivot_cols) :
          /\ pivot_cols[i] \in 1..Len(R[1])
          /\ \A ri \in 1..Len(R) :
                R[ri][pivot_cols[i]] = IF ri = i THEN 1 ELSE 0
    /\ \A i \in 1..(Len(pivot_cols) - 1) : pivot_cols[i] < pivot_cols[i + 1]
    /\ \A ri \in (Len(pivot_cols) + 1)..Len(R) :
          \A j \in 1..Len(R[ri]) : R[ri][j] = 0

C22_ReducedForm ==
    pc \in {"reduced", "reduced_again"} =>
        ReducedForm(rref_first.mat, rref_first.pivot_cols)

\* rref_mod3 returned on a matrix of rank one whose pivot had to be
\* normalised: one pivot, and an all-zero row below it
C22_Witness ==
    /\ pc = "reduced"
    /\ matrix = << <<2, 1>>, <<1, 2>> >>
    /\ rref_first.mat = << <<1, 2>>, <<0, 0>> >>
    /\ rref_first.pivot_cols = <<1>>

(***************************************************************************)
(* C23: no division by zero in rref_mod3.  In every execution the modular  *)
(* inverse pow(pivot_val, -1, 3) is computed only for a pivot value that   *)
(* is non-zero mod 3, in fact only for the value 2, so the call never      *)
(* raises; and the loop stops as soon as the row counter r equals the      *)
(* number of rows: no iteration starts with r = rows, and the call returns *)
(* either with r = rows or with the columns exhausted.                     *)
(***************************************************************************)
C23_InverseOnlyOfTwo ==
    /\ pc # "raised"
    /\ pc \in {"loop", "returned"} =>
          \A i \in 1..Len(rref_loop.pivot_vals) :
              /\ rref_loop.pivot_vals[i] = 2
              /\ ~pow_raises(rref_loop.pivot_vals[i])
    /\ pc = "loop" => rref_loop.r <= Len(rref_loop.M)
    /\ pc = "returned" =>
          \/ rref_loop.r = Len(rref_loop.M) + 1
          \/ rref_loop.c > Len(rref_loop.M[1])

\* rref_mod3 returned through the break, before the columns were exhausted,
\* after computing the inverse of a pivot value
C23_Witness ==
    /\ pc = "returned"
    /\ rref_loop.pivot_vals # <<>>
    /\ rref_loop.r = Len(rref_loop.M) + 1
    /\ rref_loop.c < Len(rref_loop.M[1])
    /\ rref_first.mat = rref_loop.M

(***************************************************************************)
(* C24: the orbit walk ends at its start.  For every start string and      *)
(* every secret s, find_cycle makes at most 3 additions; the already-seen  *)
(* string that stops the walk is the start string itself, never an         *)
(* interior element, so every recorded cycle is a closed orbit; and        *)
(* find_ternary_cycles returns, after its outer loop has visited all 3^n   *)
(* strings.                                                                *)
(***************************************************************************)
\* the while loop of find_cycle is about to end
WalkStops == pc = "find_cycle" /\ current \in seen_cycles

OrbitWalk ==
    /\ pc = "find_cycle" =>
          /\ Len(ternary_cycle) <= 3
          /\ \A i \in 2..Len(ternary_cycle) :
                ternary_cycle[i] # ternary_numbers[idx]
    /\ WalkStops =>
          /\ current = ternary_numbers[idx]
          /\ ternary_cycle[1] = ternary_numbers[idx]
          /\ add_ternary(ternary_cycle[Len(ternary_cycle)], secret_string)
                = ternary_cycle[1]
    /\ pc = "returned" =>
          /\ Len(ternary_numbers) = Pow3(n)
          /\ idx = Pow3(n) + 1
          /\ seen = Elements(ternary_numbers)

C24_OrbitWalkTerminates == []OrbitWalk /\ <>(pc = "returned")

\* a walk of three additions has just come back to its start, not the first
\* walk of the call
C24_Witness ==
    /\ WalkStops
    /\ Len(ternary_cycle) = 3
    /\ current = ternary_cycle[1]
    /\ cycles # <<>>
    /\ n = 2

(***************************************************************************)
(* C25: soundness of the returned vector.  Whenever the binary             *)
(* solve_equation or the ternary recover_secret_string_3d returns a string *)
(* taken from a row of the reduced matrix (the non-trivial branch), that   *)
(* string is non-zero and its dot product with every collected outcome     *)
(* vector is 0 mod p (p = 2, resp. 3), whatever the rank of the collected  *)
(* vectors.                                                                *)
(***************************************************************************)
\* solve_equation took the branch that reads the last row
BinaryNonTrivialBranch ==
    /\ SolvedBinary
    /\ n \in ZeroBlockRows(SimonReduced(counts), Len(counts), 2)

\* the loop of recover_secret_string_3d found a row to read
TernaryNonTrivialBranch ==
    /\ RecoveredTernary
    /\ ZeroBlockRows(TernaryReduced(n, counts),
                     Len(ternary_equations(n, counts)), 3) # {}

C25_Soundness ==
    /\ BinaryNonTrivialBranch => SecretOf(counts, prediction.val, 2)
    /\ TernaryNonTrivialBranch => SecretOf(Decoded(counts), prediction.val, 3)

\* solve_equation returned a row's string for a single non-zero equation of
\* three bits: rank one, two below the n - 1 of the round trip
C25_Witness ==
    /\ BinaryNonTrivialBranch
    /\ n = 3
    /\ Len(counts) = 1
    /\ counts[1] # zeros(3)
    /\ prediction.val # zeros(3)
    /\ Dot(IntRows(counts)[1], IntRows(<<prediction.val>>)[1], 2) = 0

(***************************************************************************)
(* C26: length parameter consistency.  In each variant the length that     *)
(* run_and_analyze derives from circuit.num_qubits (num_qubits // 2 for    *)
(* binary and ternary, num_qubits for multi-secret) equals the secret      *)
(* length n its circuit generator was called with, so the all-zero filter  *)
(* and the all-zero fallback use strings of the length of the parsed       *)
(* outcomes: every returned string has n characters.                       *)
(***************************************************************************)
C26_LengthConsistency ==
    /\ pc = "simon_analyzed" =>
          /\ simon_derived_n(simon_num_qubits(n)) = n
          /\ Len(prediction.val) = n
    /\ pc = "ternary_analyzed" =>
          /\ ternary_derived_n(ternary_num_qubits(n)) = n
          /\ Len(prediction.val) = n
    /\ pc = "multi_analyzed" =>
          /\ multi_derived_n(multi_num_qubits(n)) = n
          /\ Len(prediction.val[1]) = n
          /\ Len(prediction.val[2]) = n

(***************************************************************************)
(* C27: ancilla width agreement.  For every n >= 2 and every secret s in   *)
(* {0,1,2}^n, the all-zero secret included, the gate built by              *)
(* simon_oracle_3d has 2n + ceil(log2(number of cycles)) qubits, as many   *)
(* as the 2n + ceil(log2(3^n / 3)) qubits simon_ternary_algorithm appends  *)
(* it to, so the append never fails.                                       *)
(***************************************************************************)
C27_AncillaWidthAgreement ==
    /\ pc \in {"generated", "circuit", "raised"} =>
          oracle_3d_num_qubits(n, cycles) = ternary_num_qubits(n)
    /\ raised # "CircuitError"

(***************************************************************************)
(* C28: key string independence of the ternary oracle.  For every n >= 1   *)
(* and every secret s, the gate sequence simon_oracle_3d(n, s, key_string) *)
(* emits is the same for every key_string, because the key loop ranges     *)
(* over range(2n, ceil(log2(number of cycles))), which is always empty.    *)
(***************************************************************************)
C28_KeyIndependence ==
    pc = "generated" =>
        /\ range(2 * n, ceil_log2(Len(cycles))) = <<>>
        /\ \A key \in Strings({"0", "1", "2"}, n) :
              simon_oracle_3d(n, secret_string, Tup(key)) = oracle
        /\ \A g \in 1..Len(oracle) : oracle[g].controls # <<>>

\* the oracle of the all-zero secret was generated with a key that has a
\* '1' bit in its qubit encoding: the gates are there, none of them from the key
C28_Witness ==
    /\ pc = "generated"
    /\ n = 2
    /\ secret_string = <<"0", "0">>
    /\ key_string = <<"1", "2">>
    /\ Len(cycles) = 9
    /\ oracle # <<>>
    /\ oracle = simon_oracle_3d(2, <<"0", "0">>, <<"0", "0">>)

(***************************************************************************)
(* C29: the second branch of the multi-secret oracle is periodic in s2,    *)
(* whatever s1 is.  For all s1, s2 in {0,1}^n, s1 all-zero included, and   *)
(* every input x, the function f2 computed by the second controlled        *)
(* sub-oracle of multi_simon_oracle (the one that acts when the ancilla    *)
(* starts at 0) has f2(x) = f2(x XOR s2), and f2(x) = f2(y) only if y is x *)
(* or x XOR s2.                                                            *)
(***************************************************************************)
C29_SecondBranchPeriodic ==
    pc = "checked" =>
        /\ OutputOf(XorStr(x_str, secret_string2)) = counts[1]
        /\ \A y \in Strings({"0", "1"}, n) :
              (OutputOf(Tup(y)) = counts[1]) =>
                  (Tup(y) = x_str \/ Tup(y) = XorStr(x_str, secret_string2))

====
